---- MODULE Spec2Model ----
(***************************************************************************)
(* A model of the three stateful components of @primeqa/common:            *)
(*   - the fixed-window rate limiter   (middlewares/rateLimit.middleware)  *)
(*   - the idempotency middleware      (middlewares/idempotency.middleware,*)
(*                                      kept in permission.middleware.ts)  *)
(*   - the resilient HTTP client       (http/client)                       *)
(* and of the periodic cleanup of the two stores (utils/cacheCleanup).     *)
(* Each component has its own specification over the shared variables;     *)
(* the variables of the other components stay at their initial values.     *)
(***************************************************************************)
EXTENDS Integers, Sequences, FiniteSets, TLC

VARIABLES
  clock,      \* Date.now(), in model time units
  limiters,   \* the middleware instances returned by rateLimit(): id -> options
  store,      \* rateLimit.middleware.ts: const store = new Map<string, Entry>()
  inflight,   \* requests received whose rate-limit middleware has not run yet
  winLog,     \* per key: the next() outcomes since the key's entry was created
  lastCheck,  \* how the latest run of the rate-limit middleware ended
  cache,      \* idempotency: const cache = new Map<string, CachedResponse>()
  idem,       \* the instances returned by idempotencyMiddleware(): id -> options
  reqs,       \* idempotency: per request, the handler's closure and what it did
  emitOrder,  \* per idempotency key: ids in the order of their first emission
  call,       \* the one httpRequest call: its locals and its outcome
  cleaner     \* cacheCleanup.ts: cleanupIntervalHandle, the timers, the console

vars == <<clock, limiters, store, inflight, winLog, lastCheck,
          cache, idem, reqs, emitOrder, call, cleaner>>

rlVars   == <<limiters, store, inflight, winLog, lastCheck>>
idemVars == <<cache, idem, reqs, emitOrder>>
httpVars == <<call>>
timerVars == <<cleaner>>

----------------------------------------------------------------------------
(* Bounds of the model *)

MaxTime == 2           \* the rate limiter's clock runs 0..MaxTime
MaxIdemTime == 1       \* the idempotency middleware's clock runs 0..MaxIdemTime
MaxInflight == 2       \* requests waiting for the rate limiter at one time
MaxWindowChecks == 4   \* checks recorded per key and window
MaxMax == 2            \* the largest `max` option tried
MaxWindow == 2         \* the largest `windowMs` option tried
MaxRequests == 2       \* requests sent through the idempotency middleware
MaxTtl == 1            \* the largest `ttlMs` option tried
MaxHttpTime == 3       \* the HTTP client's clock runs 0..MaxHttpTime
MaxRetries == 2        \* the largest `retries` option tried
MaxClientTime == 1     \* the clock of a call through a client runs 0..MaxClientTime
MaxSweepTime == 2      \* the sweeps' clock runs 0..MaxSweepTime, as do the expiry times
MaxConsole == 7        \* console lines written by startCacheCleanup/stopCacheCleanup
MaxLiveTime == 1        \* time passes freely up to MaxLiveTime while a call waits

----------------------------------------------------------------------------
(* JavaScript helpers *)

Undefined == "<undefined>"

\* JS truthiness of a string-or-undefined value: undefined and "" are falsy.
Truthy(s) == s # Undefined /\ s # ""

\* Map.prototype.has / get / set / delete on a map kept as a function whose
\* DOMAIN is the set of keys present.
MapHas(m, k) == k \in DOMAIN m
MapSet(m, k, v) == [x \in (DOMAIN m) \cup {k} |-> IF x = k THEN v ELSE m[x]]
MapDelete(m, k) == [x \in (DOMAIN m) \ {k} |-> m[x]]
EmptyMap == [x \in {} |-> 0]

Min(a, b) == IF a <= b THEN a ELSE b
Max(a, b) == IF a >= b THEN a ELSE b

----------------------------------------------------------------------------
(* Rate limiter: src/src/middlewares/rateLimit.middleware.ts *)

DEFAULT_WINDOW_MS == 60000
DEFAULT_MAX == 10
DEFAULT_MESSAGE == "Too many requests"

\* The inbound requests tried: a client with req.ip, a client known only by
\* its x-forwarded-for header, and a client with neither.
RLRequests ==
  { [ip |-> "10.0.0.1", xff |-> Undefined],
    [ip |-> Undefined,  xff |-> "10.0.0.1"],
    [ip |-> "",         xff |-> Undefined] }

\* RateLimitOptions: every field optional; a missing field is an absent key.
\* The caller-supplied key generators tried: one that returns req.ip and
\* throws for a request that has none.
KeyGenerators == {"ipOrThrow"}

RLOptions ==
  { [windowMs |-> w, max |-> m] : w \in -1..MaxWindow, m \in -1..MaxMax }
    \cup { [windowMs |-> w] : w \in 1..MaxWindow }
    \cup { [max |-> m] : m \in 0..MaxMax }
    \cup { [windowMs |-> 1, max |-> 1, message |-> m] : m \in {"Slow down", ""} }
    \cup { [windowMs |-> 1, max |-> 1, keyGenerator |-> g] : g \in KeyGenerators }

\* const windowMs = options.windowMs ?? 60_000
WindowMsOf(options) ==
  IF "windowMs" \in DOMAIN options THEN options.windowMs ELSE DEFAULT_WINDOW_MS

\* const max = options.max ?? 10
MaxOf(options) ==
  IF "max" \in DOMAIN options THEN options.max ELSE DEFAULT_MAX

\* a default taken with || : an empty message gives way to the default too
M_MessageOfFalsy(options) ==
  IF "message" \in DOMAIN options /\ options.message # ""
  THEN options.message ELSE DEFAULT_MESSAGE

\* const message = options.message ?? "Too many requests"
MessageOf(options) ==
  IF "message" \in DOMAIN options THEN options.message ELSE DEFAULT_MESSAGE

\* the default keyGenerator:
\*   req.ip || req.headers["x-forwarded-for"]?.toString() || "unknown"
KeyGenerator(req) ==
  IF Truthy(req.ip) THEN req.ip
  ELSE IF Truthy(req.xff) THEN req.xff
  ELSE "unknown"

RLKeys == { KeyGenerator(req) : req \in RLRequests }

\* const key = keyGenerator(req), with the generator of the options: the key
\* it returns, or that it threw
RunKeyGenerator(options, req) ==
  IF "keyGenerator" \notin DOMAIN options
  THEN [threw |-> FALSE, key |-> KeyGenerator(req)]
  ELSE IF Truthy(req.ip)
       THEN [threw |-> FALSE, key |-> req.ip]
       ELSE [threw |-> TRUE]

\* an entry that is still live at the instant of its expiry
M_EntryExpiredStrict(entry, now) == entry.expiresAt < now

\* entry.expiresAt <= now
EntryExpired(entry, now) == entry.expiresAt <= now

\* a lazy deletion that drops every expired entry, not only the key's
M_CleanupIfExpiredAll(s, key, now) ==
  [k \in { x \in DOMAIN s : ~EntryExpired(s[x], now) } |-> s[k]]

\* cleanupIfExpired(key, now): the store after the call
CleanupIfExpired(s, key, now) ==
  IF MapHas(s, key) /\ EntryExpired(s[key], now) THEN MapDelete(s, key) ELSE s

\* { count: 1, expiresAt: now + windowMs }
NewEntry(now, windowMs) == [count |-> 1, expiresAt |-> now + windowMs]

\* an off-by-one comparison
M_LimitReachedOffByOne(entry, max) == entry.count > max

\* if (entry.count >= max)
LimitReached(entry, max) == entry.count >= max

\* a sliding window: every allowed check pushes the expiry back
M_IncrementSliding(entry) ==
  [count |-> entry.count + 1, expiresAt |-> entry.expiresAt + 1]

\* a lost update: the incremented count is not written back
M_IncrementLost(entry) == entry

\* entry.count += 1
Increment(entry) == [entry EXCEPT !.count = entry.count + 1]

\* a limiter that compares the count before it creates the entry, so that
\* max <= 0 refuses the first request of a window
M_RateLimitRun(s, options, key, now) ==
  LET s1 == CleanupIfExpired(s, key, now)
      max == MaxOf(options)
  IN  IF ~MapHas(s1, key)
      THEN IF max <= 0
           THEN [store |-> s1, outcome |-> "deny", created |-> FALSE]
           ELSE [store |-> MapSet(s1, key, NewEntry(now, WindowMsOf(options))),
                 outcome |-> "allow", created |-> TRUE]
      ELSE IF LimitReached(s1[key], max)
      THEN [store |-> s1, outcome |-> "deny", created |-> FALSE]
      ELSE [store |-> MapSet(s1, key, Increment(s1[key])),
            outcome |-> "allow", created |-> FALSE]

\* a limiter that measures the window with its own windowMs: an entry that
\* ends later than a window of this limiter opened now would is re-created
M_RateLimitRunOwnWindow(s, options, key, now) ==
  LET s1 == CleanupIfExpired(s, key, now)
  IN  IF ~MapHas(s1, key) \/ s1[key].expiresAt > now + WindowMsOf(options)
      THEN [store |-> MapSet(s1, key, NewEntry(now, WindowMsOf(options))),
            outcome |-> "allow", created |-> TRUE]
      ELSE IF LimitReached(s1[key], MaxOf(options))
      THEN [store |-> s1, outcome |-> "deny", created |-> FALSE]
      ELSE [store |-> MapSet(s1, key, Increment(s1[key])),
            outcome |-> "allow", created |-> FALSE]

\* The body of the middleware after `key` is known: the store it leaves, the
\* way it calls next(), and whether it created the key's entry.
RateLimitRun(s, options, key, now) ==
  LET s1 == CleanupIfExpired(s, key, now)
  IN  IF ~MapHas(s1, key)
      THEN [store |-> MapSet(s1, key, NewEntry(now, WindowMsOf(options))),
            outcome |-> "allow", created |-> TRUE]
      ELSE IF LimitReached(s1[key], MaxOf(options))
      THEN [store |-> s1, outcome |-> "deny", created |-> FALSE]
      ELSE [store |-> MapSet(s1, key, Increment(s1[key])),
            outcome |-> "allow", created |-> FALSE]

\* next() called without an argument
NoArg == [type |-> "undefined"]

\* new AppError(ErrorCode.FORBIDDEN, message, 429)
TooManyRequests(message) ==
  [type |-> "AppError", code |-> "FORBIDDEN", status |-> 429,
   message |-> message]

\* the argument of the one call of next() the body makes
NextArg(outcome, options) ==
  IF outcome = "deny" THEN TooManyRequests(MessageOf(options)) ELSE NoArg

\* a middleware that swallows what the generator throws and lets the
\* request through
M_OnGeneratorThrowSwallowed(s) ==
  [store |-> s, threw |-> FALSE, calls |-> <<NoArg>>]

\* keyGenerator(req) throws: the exception leaves the middleware at line 44,
\* nothing after it runs
OnGeneratorThrow(s) == [store |-> s, threw |-> TRUE, calls |-> <<>>]

InflightTotal == LET S == RLRequests IN
  LET RECURSIVE Sum(_)
      Sum(T) == IF T = {} THEN 0
                ELSE LET x == CHOOSE y \in T : TRUE IN inflight[x] + Sum(T \ {x})
  IN Sum(S)

\* A request reaches the server; its middleware chain has not run yet.
Receive(req) ==
  /\ InflightTotal < MaxInflight
  /\ inflight' = [inflight EXCEPT ![req] = @ + 1]
  /\ UNCHANGED <<clock, limiters, store, winLog, lastCheck, idemVars,
                 httpVars, timerVars>>

\* The middleware returned by rateLimit(options) runs for one waiting request:
\* one synchronous call, from Date.now() to next().
RateLimit(l, req) ==
  /\ inflight[req] > 0
  /\ LET now == clock
         gen == RunKeyGenerator(limiters[l], req)
     IN  IF gen.threw
         THEN /\ store' = OnGeneratorThrow(store).store
              /\ lastCheck' = [threw |-> OnGeneratorThrow(store).threw,
                               calls |-> OnGeneratorThrow(store).calls]
              /\ winLog' = winLog
         ELSE LET key == gen.key
                  run == RateLimitRun(store, limiters[l], key, now)
              IN  /\ run.created \/ Len(winLog[key]) < MaxWindowChecks
                  /\ store' = run.store
                  /\ winLog' = [winLog EXCEPT ![key] =
                                  IF run.created THEN <<run.outcome>>
                                  ELSE Append(@, run.outcome)]
                  /\ lastCheck' =
                       [threw |-> FALSE,
                        calls |-> <<NextArg(run.outcome, limiters[l])>>]
  /\ inflight' = [inflight EXCEPT ![req] = @ - 1]
  /\ UNCHANGED <<clock, limiters, idemVars, httpVars, timerVars>>

\* Time passes, up to the bound of the specification.
Tick(limit) ==
  /\ clock < limit
  /\ clock' = clock + 1
  /\ UNCHANGED <<rlVars, idemVars, httpVars, timerVars>>

----------------------------------------------------------------------------
(* Idempotency middleware: src/src/middlewares/permission.middleware.ts,   *)
(* lines 49-152 (the text of idempotency.middleware.ts)                    *)

DEFAULT_TTL_MS == 300000

Whitespace == {" ", "\t"}

\* String.prototype.trim on a string kept as a sequence of characters
RECURSIVE TrimLeft(_)
TrimLeft(s) ==
  IF s # <<>> /\ Head(s) \in Whitespace THEN TrimLeft(Tail(s)) ELSE s

RECURSIVE TrimRight(_)
TrimRight(s) ==
  IF s # <<>> /\ s[Len(s)] \in Whitespace
  THEN TrimRight(SubSeq(s, 1, Len(s) - 1)) ELSE s

Trim(s) == TrimRight(TrimLeft(s))

\* The values of the Idempotency-Key header tried.
IdemHeaderValues ==
  { <<"k">>, <<" ", "k", "\t">>, <<" ">>, <<"j">> }

\* The inbound requests tried: a method, and the header present or not.
IdemRequests ==
  { [method |-> "POST", headers |-> h] :
      h \in {EmptyMap} \cup
            { [n \in {"Idempotency-Key"} |-> v] : v \in IdemHeaderValues } }
    \cup { [method |-> "GET", headers |-> [n \in {"Idempotency-Key"} |-> <<"k">>]] }

\* IdempotencyOptions: ttlMs is optional.
IdemOptions == { [ttlMs |-> t] : t \in 0..MaxTtl } \cup { EmptyMap }

\* const ttlMs = options.ttlMs ?? 5 * 60 * 1000
TtlMsOf(options) ==
  IF "ttlMs" \in DOMAIN options THEN options.ttlMs ELSE DEFAULT_TTL_MS

\* a key read without trimming
M_IdemKeyUntrimmed(req) ==
  IF MapHas(req.headers, "Idempotency-Key")
  THEN req.headers["Idempotency-Key"] ELSE <<>>

\* const key = req.header("Idempotency-Key")?.trim(), with an absent header
\* (key undefined) and an empty key both written <<>>: `if (!key)` takes
\* the two the same way.
IdemKey(req) ==
  IF MapHas(req.headers, "Idempotency-Key")
  THEN Trim(req.headers["Idempotency-Key"]) ELSE <<>>

\* a middleware that governs every method
M_GovernedAnyMethod(req) == IdemKey(req) # <<>>

\* Neither `if (req.method !== "POST") return next()` nor
\* `if (!key) return next()` is taken.
Governed(req) == req.method = "POST" /\ IdemKey(req) # <<>>

\* What the business logic may emit: res.statusCode, the value of
\* res.getHeader("Content-Type") at that moment (a string, or undefined when
\* the header is not set yet) and the body.
Emissions ==
  { [status |-> 200, contentType |-> [type |-> "string", value |-> "application/json"],
     body |-> "created"],
    [status |-> 500, contentType |-> [type |-> "undefined"], body |-> "failed"] }

\* a record that outlives its expiry time by one reading of the clock
M_RecordExpiredStrict(cached, now) == cached.expiresAt < now

\* cached.expiresAt <= now
RecordExpired(cached, now) == cached.expiresAt <= now

\* cleanIfExpired(key, now): the cache after the call
CleanIfExpired(c, key, now) ==
  IF MapHas(c, key) /\ RecordExpired(c[key], now) THEN MapDelete(c, key) ELSE c

\* the `headers` object built by captureAndStore
CapturedHeaders(e) ==
  IF e.contentType.type = "string"
  THEN [n \in {"Content-Type"} |-> e.contentType.value]
  ELSE EmptyMap

\* a store that keeps the first writer's record
M_CaptureKeepFirst(c, key, e, now, ttlMs) ==
  IF MapHas(c, key) THEN c
  ELSE MapSet(c, key, [status |-> e.status, headers |-> CapturedHeaders(e),
                       body |-> e.body, expiresAt |-> now + ttlMs])

\* a capture that stores successful responses only
M_CaptureSuccessOnly(c, key, e, now, ttlMs) ==
  IF e.status >= 400 THEN c
  ELSE MapSet(c, key, [status |-> e.status, headers |-> CapturedHeaders(e),
                       body |-> e.body, expiresAt |-> now + ttlMs])

\* captureAndStore(body): the cache after the call; `now` is the closure's
CaptureAndStore(c, key, e, now, ttlMs) ==
  MapSet(c, key, [status |-> e.status, headers |-> CapturedHeaders(e),
                  body |-> e.body, expiresAt |-> now + ttlMs])

\* a replay that drops the captured status
M_ReplayDefaultStatus(cached) ==
  [status |-> 200, headers |-> cached.headers, body |-> cached.body]

\* res.status(cached.status).set(cached.headers).send(cached.body)
Replay(cached) ==
  [status |-> cached.status, headers |-> cached.headers, body |-> cached.body]

\* const cached = cache.get(key); if (cached)
LookupHit(c, key) == MapHas(c, key)

\* a replay that renews the record's expiry
M_CacheAfterReplayRenew(c, key, now, ttlMs) ==
  [c EXCEPT ![key].expiresAt = now + ttlMs]

\* the cache after the replay branch: the branch does not write
CacheAfterReplay(c, key, now, ttlMs) == c

\* The entry of a request whose handler returned next() at once.  `now` is
\* the handler's Date.now() (-1 where it returns before reading it), `emitted`
\* the captured first emission, `again` whether a later emission was passed
\* on to the original send/json, `replayed` what the middleware itself wrote,
\* `seenAtEmit` the number of requests that had arrived when the first
\* emission was made.
PassedThrough(req) ==
  [req |-> req, phase |-> "passed", key |-> <<>>, now |-> -1, ttlMs |-> -1,
   stored |-> FALSE, nextCalls |-> 1, emitted |-> <<>>, again |-> FALSE,
   replayed |-> <<>>, seenAtEmit |-> 0]

\* The middleware returned by idempotencyMiddleware(options) runs for a new
\* request.  Requests are numbered in the order their handlers run.
Arrive(i, req) ==
  LET r == Cardinality(DOMAIN reqs) + 1 IN
  /\ r <= MaxRequests
  /\ IF ~Governed(req)
     THEN /\ reqs' = MapSet(reqs, r, PassedThrough(req))
          /\ cache' = cache
     ELSE LET key == IdemKey(req)
              now == clock
              ttlMs == TtlMsOf(idem[i])
              c1 == CleanIfExpired(cache, key, now)
          IN  IF LookupHit(c1, key)
              THEN /\ reqs' = MapSet(reqs, r,
                        [req |-> req, phase |-> "replayed", key |-> key,
                         now |-> now, ttlMs |-> ttlMs, stored |-> FALSE,
                         nextCalls |-> 0, emitted |-> <<>>, again |-> FALSE,
                         replayed |-> <<Replay(c1[key])>>, seenAtEmit |-> 0])
                   /\ cache' = CacheAfterReplay(c1, key, now, ttlMs)
              ELSE /\ reqs' = MapSet(reqs, r,
                        [req |-> req, phase |-> "running", key |-> key,
                         now |-> now, ttlMs |-> ttlMs, stored |-> FALSE,
                         nextCalls |-> 1, emitted |-> <<>>, again |-> FALSE,
                         replayed |-> <<>>, seenAtEmit |-> 0])
                   /\ cache' = c1
  /\ UNCHANGED <<clock, idem, emitOrder, rlVars, httpVars, timerVars>>

\* a guard that lets every emission capture
M_ShouldCaptureAlways(stored) == TRUE

\* if (!stored), on the flag `let stored = false` that the wrappers of
\* res.send and res.json share
ShouldCapture(stored) == ~stored

\* The wrapped res.send or res.json of an intercepted request is called with
\* emission e (the two wrappers have the same body): the first call captures,
\* every call forwards to the original.
ResEmit(r, e) ==
  /\ r \in DOMAIN reqs
  /\ reqs[r].phase = "running"
  /\ IF ShouldCapture(reqs[r].stored)
     THEN /\ cache' = CaptureAndStore(cache, reqs[r].key, e,
                                      reqs[r].now, reqs[r].ttlMs)
          /\ emitOrder' = MapSet(emitOrder, reqs[r].key,
                                 IF MapHas(emitOrder, reqs[r].key)
                                 THEN Append(emitOrder[reqs[r].key], r)
                                 ELSE <<r>>)
          /\ reqs' = [reqs EXCEPT ![r].stored = TRUE,
                                  ![r].emitted = <<e>>,
                                  ![r].seenAtEmit = Cardinality(DOMAIN reqs)]
     ELSE /\ reqs' = [reqs EXCEPT ![r].again = TRUE]
          /\ UNCHANGED <<cache, emitOrder>>
  /\ UNCHANGED <<clock, idem, rlVars, httpVars, timerVars>>

\* The values of the Idempotency-Key header tried on requireIdempotencyKey:
\* empty, blank, and a key.
RequireHeaderValues == { <<>>, <<" ">>, <<"k">> }

\* The POSTs sent to a route that mounts requireIdempotencyKey in front of
\* the idempotency middleware: the header present or not.
RequireRequests ==
  { [method |-> "POST", headers |-> h] :
      h \in {EmptyMap} \cup
            { [n \in {"Idempotency-Key"} |-> v] : v \in RequireHeaderValues } }

\* new AppError(ErrorCode.VALIDATION_ERROR, "Idempotency-Key header
\* required", 400)
KeyRequired ==
  [type |-> "AppError", code |-> "VALIDATION_ERROR", status |-> 400,
   message |-> "Idempotency-Key header required"]

\* requireIdempotencyKey(req, _res, next): the argument of its one call of
\* next().  const key = req.header("Idempotency-Key"); if (!key): the header
\* is read as it was sent, and an absent header and an empty one are falsy.
RequireIdempotencyKey(req) ==
  IF ~MapHas(req.headers, "Idempotency-Key")
       \/ req.headers["Idempotency-Key"] = <<>>
  THEN KeyRequired ELSE NoArg

\* The entry of a request that requireIdempotencyKey answered with
\* next(error): the idempotency middleware behind it never ran.
Rejected(req, error) ==
  [req |-> req, phase |-> "rejected", key |-> <<>>, now |-> -1, ttlMs |-> -1,
   stored |-> FALSE, nextCalls |-> 0, emitted |-> <<>>, again |-> FALSE,
   replayed |-> <<>>, seenAtEmit |-> 0, guard |-> error]

\* A request reaches a route that mounts requireIdempotencyKey and then the
\* middleware of instance i: the second runs, in the same synchronous call
\* of next(), when the first called next() without an argument.
RequireThenArrive(i, req) ==
  IF RequireIdempotencyKey(req).type = "AppError"
  THEN /\ Cardinality(DOMAIN reqs) < MaxRequests
       /\ reqs' = MapSet(reqs, Cardinality(DOMAIN reqs) + 1,
                         Rejected(req, RequireIdempotencyKey(req)))
       /\ UNCHANGED <<clock, cache, idem, emitOrder, rlVars, httpVars,
                      timerVars>>
  ELSE Arrive(i, req)

----------------------------------------------------------------------------
(* Periodic cleanup: src/src/utils/cacheCleanup.ts *)

\* for (const key of store.keys()) cleanupIfExpired(key, now), on the keys
\* still to be visited
RECURSIVE ForEachStoreKey(_, _, _)
ForEachStoreKey(s, keys, now) ==
  IF keys = {} THEN s
  ELSE LET key == CHOOSE k \in keys : TRUE
       IN  ForEachStoreKey(CleanupIfExpired(s, key, now), keys \ {key}, now)

\* _cleanupRateLimitCache(now): cleanupIfExpired on every key of the store
CleanupRateLimitCache(s, now) == ForEachStoreKey(s, DOMAIN s, now)

\* for (const key of cache.keys()) cleanIfExpired(key, now), on the keys
\* still to be visited
RECURSIVE ForEachCacheKey(_, _, _)
ForEachCacheKey(c, keys, now) ==
  IF keys = {} THEN c
  ELSE LET key == CHOOSE k \in keys : TRUE
       IN  ForEachCacheKey(CleanIfExpired(c, key, now), keys \ {key}, now)

\* _cleanupIdempotencyCache(now): cleanIfExpired on every key of the cache
CleanupIdempotencyCache(c, now) == ForEachCacheKey(c, DOMAIN c, now)

\* Number(process.hrtime.bigint() / 1000000n): milliseconds on the monotonic
\* clock, which counts from an arbitrary time in the past and is not related
\* to the time of day.  With that origin anywhere between the epoch of
\* Date.now() and the present, the reading is some value from 0 up to the
\* reading `wall` of Date.now().
HrTimeMs(wall) == 0..wall

\* cleanupExpiredEntries(), the callback of the cleanup interval: both stores
\* are swept with the monotonic clock's reading as `now`.  The window of an
\* entry that is deleted is over, and its log with it.
CleanupExpiredEntries ==
  \E now \in HrTimeMs(clock) :
    /\ store' = CleanupRateLimitCache(store, now)
    /\ cache' = CleanupIdempotencyCache(cache, now)
    /\ winLog' = [k \in DOMAIN winLog |->
                    IF MapHas(store, k) /\ ~MapHas(store', k)
                    THEN <<>> ELSE winLog[k]]
    /\ UNCHANGED <<clock, limiters, inflight, lastCheck, idem, reqs,
                   emitOrder, httpVars, timerVars>>

\* startCacheCleanup(intervalMs = 5 * 60 * 1000)
DEFAULT_CLEANUP_INTERVAL_MS == 300000

\* The argument lists startCacheCleanup is called with
StartArgs == { <<>>, <<1000>> }

IntervalMsOf(args) ==
  IF args = <<>> THEN DEFAULT_CLEANUP_INTERVAL_MS ELSE args[1]

\* let cleanupIntervalHandle = null; handles are numbered from 1
NoHandle == 0

\* a start that never finds the timer running
M_AlreadyRunningNever(handle) == FALSE

\* if (cleanupIntervalHandle)
AlreadyRunning(handle) == handle # NoHandle

\* the interval that a handle stands for
IntervalsOf(armed, handle) == { t \in armed : t.id = handle }

\* startCacheCleanup(...args)
StartCacheCleanup(args) ==
  /\ Len(cleaner.console) < MaxConsole
  /\ IF AlreadyRunning(cleaner.handle)
     THEN cleaner' = [cleaner EXCEPT !.console =
                        Append(@, [level |-> "warn",
                                   text |-> "[CacheCleanup] Already running, skipping"])]
     ELSE LET id == cleaner.made + 1
              intervalMs == IntervalMsOf(args)
          IN  cleaner' =
                [handle |-> id,
                 armed |-> cleaner.armed \cup {[id |-> id, intervalMs |-> intervalMs]},
                 made |-> id,
                 console |-> Append(cleaner.console,
                                    [level |-> "log",
                                     text |-> "[CacheCleanup] Started with interval",
                                     intervalMs |-> intervalMs])]
  /\ UNCHANGED <<clock, rlVars, idemVars, httpVars>>

\* stopCacheCleanup()
StopCacheCleanup ==
  /\ Len(cleaner.console) < MaxConsole
  /\ IF AlreadyRunning(cleaner.handle)
     THEN cleaner' =
            [cleaner EXCEPT !.armed = @ \ IntervalsOf(@, cleaner.handle),
                            !.handle = NoHandle,
                            !.console = Append(@, [level |-> "log",
                                                   text |-> "[CacheCleanup] Stopped"])]
     ELSE cleaner' = cleaner
  /\ UNCHANGED <<clock, rlVars, idemVars, httpVars>>

\* An armed interval fires: its callback calls cleanupExpiredEntries().
IntervalFires(t) ==
  /\ t \in cleaner.armed
  /\ CleanupExpiredEntries

----------------------------------------------------------------------------
(* HTTP client: src/src/http/client.ts *)

DEFAULT_TIMEOUT == 10000
DEFAULT_RETRIES == 2
DEFAULT_RETRY_DELAY == 1000

\* String.prototype.toUpperCase on a string kept as a sequence of characters
UpperChar(c) ==
  CASE c = "a" -> "A" [] c = "d" -> "D" [] c = "e" -> "E" [] c = "g" -> "G"
    [] c = "h" -> "H" [] c = "i" -> "I" [] c = "l" -> "L" [] c = "n" -> "N"
    [] c = "o" -> "O" [] c = "p" -> "P" [] c = "s" -> "S" [] c = "t" -> "T"
    [] OTHER -> c

ToUpperCase(s) == [i \in 1..Len(s) |-> UpperChar(s[i])]

\* The methods tried, as the caller spells them.
HttpMethods ==
  { <<"G","E","T">>, <<"g","e","t">>, <<"H","E","A","D">>,
    <<"O","p","t","i","o","n","s">>,
    <<"P","O","S","T">>, <<"d","e","l","e","t","e">> }

\* a client that retries every method
M_IsRetryableMethodAll(method) == TRUE

\* ["GET", "HEAD", "OPTIONS"].includes(method.toUpperCase())
IsRetryableMethod(method) ==
  ToUpperCase(method) \in
    { <<"G","E","T">>, <<"H","E","A","D">>, <<"O","P","T","I","O","N","S">> }

\* The options tried; a field left out takes its default.
HttpOptions ==
  { [retries |-> r, retryDelay |-> d, timeout |-> t] :
      r \in -1..MaxRetries, d \in {0, 1}, t \in {1, 2} }
    \cup { [retryDelay |-> 1, timeout |-> 1] }
    \cup { EmptyMap }

TimeoutOf(options) ==
  IF "timeout" \in DOMAIN options THEN options.timeout ELSE DEFAULT_TIMEOUT

RetriesOf(options) ==
  IF "retries" \in DOMAIN options THEN options.retries ELSE DEFAULT_RETRIES

RetryDelayOf(options) ==
  IF "retryDelay" \in DOMAIN options THEN options.retryDelay
  ELSE DEFAULT_RETRY_DELAY

\* one attempt too few
M_MaxAttemptsNoFirst(method, options) ==
  IF IsRetryableMethod(method) THEN RetriesOf(options) ELSE 1

\* one attempt too many
M_MaxAttemptsOneMore(method, options) ==
  IF IsRetryableMethod(method) THEN RetriesOf(options) + 2 ELSE 1

\* const maxAttempts = shouldRetry ? retries + 1 : 1
MaxAttempts(method, options) ==
  IF IsRetryableMethod(method) THEN RetriesOf(options) + 1 ELSE 1

Url == "http://dependency/resource"

\* What one fetch may end in: a response whose body can be read, a response
\* whose body read (response.json() / response.text()) throws, a rejection
\* of fetch with a Node error code or with none, and the abort of the call by
\* the timeout timer.
HttpResponses ==
  { [kind |-> "response", status |-> 200, statusText |-> "OK", body |-> "result"],
    [kind |-> "response", status |-> 404, statusText |-> "Not Found",
     body |-> "no such thing"],
    [kind |-> "response", status |-> 500, statusText |-> "Internal Server Error",
     body |-> "oops"],
    [kind |-> "response", status |-> 501, statusText |-> "Not Implemented",
     body |-> "not here"],
    [kind |-> "response", status |-> 503, statusText |-> "Service Unavailable",
     body |-> "busy"] }

HttpRejections ==
  { [kind |-> "bodyError", name |-> "SyntaxError", code |-> "",
     message |-> "Unexpected token"],
    [kind |-> "rejected", name |-> "Error", code |-> "ECONNREFUSED",
     message |-> "connect ECONNREFUSED"],
    [kind |-> "rejected", name |-> "Error", code |-> "ENOTFOUND",
     message |-> "getaddrinfo ENOTFOUND"],
    [kind |-> "rejected", name |-> "Error", code |-> "ETIMEDOUT",
     message |-> "connect ETIMEDOUT"],
    [kind |-> "rejected", name |-> "TypeError", code |-> "",
     message |-> "fetch failed"] }

AbortOutcome ==
  [kind |-> "aborted", name |-> "AbortError", code |-> "",
   message |-> "This operation was aborted"]

\* response.ok
ResponseOk(status) == status >= 200 /\ status <= 299

\* The values the code throws and catches.  An Error has name, code (""
\* when it has none), status (0 when it has none), data and message.
HttpError(o) ==
  [type |-> "Error", name |-> "Error", code |-> "", status |-> o.status,
   data |-> o.body, message |-> <<"HTTP ", o.statusText>>]

ThrownError(o) ==
  [type |-> "Error", name |-> o.name, code |-> o.code, status |-> 0,
   data |-> "", message |-> <<o.message>>]

\* a classification that retries every status from 500 up
M_IsRetryableErrorAll5xx(err) ==
  \/ err.code = "ECONNREFUSED"
  \/ err.code = "ENOTFOUND"
  \/ err.code = "ETIMEDOUT"
  \/ err.name = "AbortError"
  \/ err.status >= 500

\* isRetryableError(error)
IsRetryableError(err) ==
  \/ err.code = "ECONNREFUSED"
  \/ err.code = "ENOTFOUND"
  \/ err.code = "ETIMEDOUT"
  \/ err.name = "AbortError"
  \/ (err.status >= 500 /\ err.status # 501)

\* new AppError(INTERNAL_ERROR, `Dependency service failed: ${statusText}`,
\*              503, { url, status })
DependencyFailed(o) ==
  [type |-> "AppError", code |-> "INTERNAL_ERROR", status |-> 503,
   message |-> <<"Dependency service failed: ", o.statusText>>,
   details |-> [url |-> Url, status |-> o.status]]

\* a mapping that drops the message of the error it wraps
M_ServiceUnavailableNoMessage(err) ==
  [type |-> "AppError", code |-> "INTERNAL_ERROR", status |-> 503,
   message |-> <<"Service unavailable or timed out">>,
   details |-> [url |-> Url, originalError |-> <<"Unknown error">>]]

\* new AppError(INTERNAL_ERROR, "Service unavailable or timed out", 503,
\*              { url, originalError })
ServiceUnavailable(err) ==
  [type |-> "AppError", code |-> "INTERNAL_ERROR", status |-> 503,
   message |-> <<"Service unavailable or timed out">>,
   details |-> [url |-> Url, originalError |-> err.message]]

\* a message that counts one attempt too many
M_RequestFailedAfterOffByOne(maxAttempts, lastError) ==
  [type |-> "AppError", code |-> "INTERNAL_ERROR", status |-> 503,
   message |-> <<"Request failed after attempts">>,
   attempts |-> maxAttempts + 1,
   details |-> [url |-> Url, originalError |-> <<"Unknown error">>]]

\* new AppError(INTERNAL_ERROR, `Request failed after ${maxAttempts} attempts`,
\*              503, { url, originalError: errorMsg })
RequestFailedAfter(maxAttempts, lastError) ==
  [type |-> "AppError", code |-> "INTERNAL_ERROR", status |-> 503,
   message |-> <<"Request failed after attempts">>, attempts |-> maxAttempts,
   details |-> [url |-> Url,
                originalError |-> IF lastError.type = "undefined"
                                  THEN <<"Unknown error">>
                                  ELSE lastError.message]]

NoError == [type |-> "undefined"]

\* a client that takes every failure status for a dependency failure
M_StatusIsDependencyFailureAny(status) == status >= 400

\* if (response.status >= 500)
StatusIsDependencyFailure(status) == status >= 500

\* The head of the for loop with `attempt` = a: the call of fetch and the
\* arming of the timeout timer, or, past the last attempt, the throw that
\* follows the loop.
LoopHead(c, a, now) ==
  IF a <= c.maxAttempts
  THEN [c EXCEPT !.pc = "fetch", !.attempt = a, !.fetchCalls = @ + 1,
                 !.startedAt = now,
                 !.timers = @ \cup {[attempt |-> a, fireAt |-> now + c.timeout]}]
  ELSE [c EXCEPT !.pc = "thrown", !.attempt = a,
                 !.error = RequestFailedAfter(c.maxAttempts, c.lastError)]

\* a backoff that waits retryDelay after every attempt
M_BackoffDelayFixed(retryDelay, attempt) == retryDelay

\* retryDelay * attempt, the argument of sleep on lines 117 and 144
BackoffDelay(retryDelay, attempt) == retryDelay * attempt

\* await sleep(retryDelay * attempt); continue
Backoff(c, err, now) ==
  [c EXCEPT !.pc = "sleep", !.lastError = err,
            !.wakeAt = now + BackoffDelay(c.retryDelay, c.attempt)]

\* The catch block, for a caught value that is no AppError.
Caught(c, err, now) ==
  IF c.shouldRetry /\ c.attempt < c.maxAttempts /\ IsRetryableError(err)
  THEN Backoff(c, err, now)
  ELSE IF err.code = "ECONNREFUSED" \/ err.code = "ENOTFOUND"
            \/ err.name = "AbortError"
       THEN [c EXCEPT !.pc = "thrown", !.lastError = err,
                      !.error = ServiceUnavailable(err)]
       ELSE [c EXCEPT !.pc = "thrown", !.lastError = err, !.error = err]

\* The try block from the settled fetch on, with the catch block behind it.
Settled(c, o, now) ==
  IF o.kind = "response"
  THEN IF ResponseOk(o.status)
       THEN [c EXCEPT !.pc = "returned",
                      !.result = [data |-> o.body, status |-> o.status]]
       ELSE LET error == HttpError(o) IN
            IF c.shouldRetry /\ c.attempt < c.maxAttempts
                 /\ IsRetryableError(error)
            THEN Backoff(c, error, now)
            ELSE IF StatusIsDependencyFailure(o.status)
                 \* thrown in the try block, caught, and thrown again as it
                 \* is an AppError
                 THEN [c EXCEPT !.pc = "thrown",
                                !.lastError = DependencyFailed(o),
                                !.error = DependencyFailed(o)]
                 ELSE Caught(c, error, now)
  ELSE Caught(c, ThrownError(o), now)

\* { ...a, ...b }: the own properties of a, then those of b over them
Spread(a, b) ==
  [k \in (DOMAIN a) \cup (DOMAIN b) |-> IF k \in DOMAIN b THEN b[k] ELSE a[k]]

\* The inbound Express requests handed to the client as `req`: headers with
\* or without authorization (possibly empty) and x-correlation-id (a string,
\* or an array when the header was repeated), and the field correlationId.
InboundReqs ==
  { [headers |-> EmptyMap],
    [headers |-> ("authorization" :> "Bearer inbound")],
    [headers |-> ("authorization" :> "")],
    [headers |-> ("authorization" :> "Bearer inbound")
                 @@ ("x-correlation-id" :> [isArray |-> FALSE, value |-> "c-1"])],
    [headers |-> ("x-correlation-id" :>
                    [isArray |-> TRUE, items |-> <<"c-2", "c-3">>])],
    [headers |-> ("x-correlation-id" :> [isArray |-> FALSE, value |-> "c-1"]),
     correlationId |-> "c-0"] }

\* headers = {} / propagateAuth = true / propagateCorrelationId = true
HeadersOf(options) ==
  IF "headers" \in DOMAIN options THEN options.headers ELSE EmptyMap

PropagateAuthOf(options) ==
  IF "propagateAuth" \in DOMAIN options THEN options.propagateAuth ELSE TRUE

PropagateCorrelationIdOf(options) ==
  IF "propagateCorrelationId" \in DOMAIN options
  THEN options.propagateCorrelationId ELSE TRUE

\* a client that keeps the caller's own Authorization header
M_WithAuthorizationKeepCaller(h, options) ==
  IF /\ "req" \in DOMAIN options
     /\ PropagateAuthOf(options)
     /\ "authorization" \in DOMAIN options.req.headers
     /\ Truthy(options.req.headers.authorization)
     /\ ~MapHas(h, "Authorization")
  THEN MapSet(h, "Authorization", options.req.headers.authorization)
  ELSE h

\* if (req && propagateAuth) { const authHeader = req.headers.authorization;
\*   if (authHeader) finalHeaders["Authorization"] = authHeader }
WithAuthorization(h, options) ==
  IF /\ "req" \in DOMAIN options
     /\ PropagateAuthOf(options)
     /\ "authorization" \in DOMAIN options.req.headers
     /\ Truthy(options.req.headers.authorization)
  THEN MapSet(h, "Authorization", options.req.headers.authorization)
  ELSE h

\* req.correlationId || req.headers["x-correlation-id"], with an absent
\* value written as a non-array of value Undefined
CorrelationIdOf(req) ==
  IF "correlationId" \in DOMAIN req /\ Truthy(req.correlationId)
  THEN [isArray |-> FALSE, value |-> req.correlationId]
  ELSE IF "x-correlation-id" \in DOMAIN req.headers
       THEN req.headers["x-correlation-id"]
       ELSE [isArray |-> FALSE, value |-> Undefined]

\* if (req && propagateCorrelationId) { ...; if (correlationId)
\*   finalHeaders["X-Correlation-Id"] = Array.isArray(correlationId)
\*     ? correlationId[0] : correlationId }
WithCorrelationId(h, options) ==
  IF "req" \in DOMAIN options /\ PropagateCorrelationIdOf(options)
  THEN LET correlationId == CorrelationIdOf(options.req)
       IN  IF correlationId.isArray
           THEN MapSet(h, "X-Correlation-Id", correlationId.items[1])
           ELSE IF Truthy(correlationId.value)
                THEN MapSet(h, "X-Correlation-Id", correlationId.value)
                ELSE h
  ELSE h

\* finalHeaders as it is handed to fetch
FinalHeaders(options) ==
  LET h0 == Spread([n \in {"Content-Type"} |-> "application/json"],
                   HeadersOf(options))
  IN  WithCorrelationId(WithAuthorization(h0, options), options)

\* body: body ? JSON.stringify(body) : undefined
FetchBody(options) ==
  IF "body" \in DOMAIN options /\ Truthy(options.body)
  THEN [json |-> options.body] ELSE [json |-> Undefined]

\* The record of a call of httpRequest(method, url, options) that has not run
\* yet.
NewCall(method, url, options) ==
  [pc |-> "idle", method |-> method, url |-> url, options |-> options,
   finalHeaders |-> EmptyMap, body |-> [json |-> Undefined],
   shouldRetry |-> FALSE, maxAttempts |-> 0, timeout |-> 0,
   retryDelay |-> 0, attempt |-> 0, fetchCalls |-> 0,
   startedAt |-> 0, wakeAt |-> 0, timers |-> {},
   lastError |-> NoError,
   log |-> <<>>, result |-> [data |-> "", status |-> 0],
   error |-> NoError]

\* httpRequest(method, url, options) is called: the locals are set and the
\* function runs up to its first await.
HttpRequest ==
  /\ call.pc = "idle"
  /\ LET c0 == [call EXCEPT
                  !.shouldRetry = IsRetryableMethod(call.method),
                  !.maxAttempts = MaxAttempts(call.method, call.options),
                  !.timeout = TimeoutOf(call.options),
                  !.retryDelay = RetryDelayOf(call.options),
                  !.finalHeaders = FinalHeaders(call.options),
                  !.body = FetchBody(call.options)]
     IN  call' = LoopHead(c0, 1, clock)
  /\ UNCHANGED <<clock, rlVars, idemVars, timerVars>>

\* clearTimeout(timeoutId), reached when fetch resolved with a response; a
\* rejected fetch jumps to the catch block and leaves its timer armed
ClearTimeout(timers, a, o) ==
  IF o.kind \in {"response", "bodyError"}
  THEN { t \in timers : t.attempt # a }
  ELSE timers

\* The pending fetch settles with outcome o before the timer fires, and the
\* function runs on to its next await, its return or its throw.
FetchSettles(o) ==
  /\ call.pc = "fetch"
  /\ clock <= call.startedAt + call.timeout
  /\ \E t \in call.timers : t.attempt = call.attempt
  /\ call' = [Settled(call, o, clock) EXCEPT
                !.log = Append(call.log, o),
                !.timers = ClearTimeout(call.timers, call.attempt, o)]
  /\ UNCHANGED <<clock, rlVars, idemVars, timerVars>>

\* one AbortController for the whole call: every timer aborts the fetch that
\* is pending when it fires
M_TimerAbortsShared(t, c) == c.pc = "fetch"

\* controller.abort() of the timer armed for attempt t.attempt: `controller`
\* is created anew in each iteration of the loop, so the abort reaches the
\* fetch of that attempt only, and only while it is pending
TimerAborts(t, c) == c.pc = "fetch" /\ t.attempt = c.attempt

\* A timeout timer fires, no earlier than `timeout` after it was armed:
\* controller.abort() makes the pending fetch of its attempt reject with an
\* AbortError; the timer left behind by an attempt that has ended aborts
\* nothing.
TimeoutFires(t) ==
  /\ t \in call.timers
  /\ clock >= t.fireAt
  /\ call' = IF TimerAborts(t, call)
             THEN [Settled(call, AbortOutcome, clock) EXCEPT
                     !.log = Append(call.log, AbortOutcome),
                     !.timers = call.timers \ {t}]
             ELSE [call EXCEPT !.timers = call.timers \ {t}]
  /\ UNCHANGED <<clock, rlVars, idemVars, timerVars>>

\* a sleep that resolves at once
M_SleepOverAtOnce(c, now) == TRUE

\* sleep(ms) resolves from a setTimeout of ms: no earlier than ms after the
\* call
SleepOver(c, now) == now >= c.wakeAt

\* The backoff sleep ends and the loop goes on with attempt + 1.
SleepEnds ==
  /\ call.pc = "sleep"
  /\ SleepOver(call, clock)
  /\ call' = LoopHead(call, call.attempt + 1, clock)
  /\ UNCHANGED <<clock, rlVars, idemVars, timerVars>>

\* Time passes while the call waits: up to the bound, and beyond it for as
\* long as the timeout timer of the pending fetch or the setTimeout of the
\* pending sleep is not due yet.
TimePasses ==
  /\ \/ clock < MaxLiveTime
     \/ call.pc = "fetch" /\ clock < call.startedAt + call.timeout
     \/ call.pc = "sleep" /\ clock < call.wakeAt
  /\ clock' = clock + 1
  /\ UNCHANGED <<rlVars, idemVars, httpVars, timerVars>>

\* The pending fetch ends: it settles, or the timeout timer of its attempt
\* aborts it.
FetchEnds ==
  \/ \E o \in HttpResponses \cup HttpRejections : FetchSettles(o)
  \/ \E t \in call.timers : TimerAborts(t, call) /\ TimeoutFires(t)

----------------------------------------------------------------------------
(* createHttpClient: src/src/http/client.ts, lines 207-271 *)

\* The `defaults` createHttpClient is called with.
ClientDefaults ==
  { EmptyMap,
    [baseUrl |-> "http://dependency", retries |-> 0,
     headers |-> ("X-Service-Name" :> "project-service")],
    [baseUrl |-> "http://dependency", retries |-> 0,
     headers |-> ("X-Service-Name" :> "project-service")
                 @@ ("Authorization" :> "Bearer service")],
    [baseUrl |-> "", retries |-> 0, timeout |-> 1,
     headers |-> ("X-API-Key" :> "test-key")],
    [baseUrl |-> "http://dependency", retries |-> 0, propagateAuth |-> FALSE] }

\* The `headers` option of one call made through the client.
CallHeaders ==
  { ("X-Trace" :> "t-1"),
    ("Authorization" :> "Bearer own"),
    ("X-Service-Name" :> "other-service") }

\* The `options` of one call made through the client (an absent argument
\* spreads like an empty object).
CallOptions ==
  { EmptyMap, [retries |-> 1, retryDelay |-> 1, timeout |-> 1] }
    \cup { [req |-> r] : r \in InboundReqs }
    \cup { [headers |-> h] : h \in CallHeaders }
    \cup { [headers |-> h, req |-> r] : h \in CallHeaders, r \in InboundReqs }
    \cup { [req |-> r, propagateAuth |-> b] :
             r \in InboundReqs, b \in BOOLEAN }

\* The methods of the client object, with the method name each hands to
\* httpRequest and whether it takes a body.
ClientVerbs ==
  { [name |-> "get", method |-> <<"G", "E", "T">>, hasBody |-> FALSE],
    [name |-> "post", method |-> <<"P", "O", "S", "T">>, hasBody |-> TRUE],
    [name |-> "put", method |-> <<"P", "U", "T">>, hasBody |-> TRUE],
    [name |-> "patch", method |-> <<"P", "A", "T", "C", "H">>, hasBody |-> TRUE],
    [name |-> "delete", method |-> <<"D", "E", "L", "E", "T", "E">>,
     hasBody |-> FALSE] }

\* const { baseUrl, ...defaultOptions } = defaults
BaseUrlOf(defaults) ==
  IF "baseUrl" \in DOMAIN defaults THEN defaults.baseUrl ELSE Undefined

DefaultOptionsOf(defaults) ==
  [k \in (DOMAIN defaults) \ {"baseUrl"} |-> defaults[k]]

\* const url = baseUrl ? `${baseUrl}${path}` : path
ClientUrl(defaults, path) ==
  IF Truthy(BaseUrlOf(defaults)) THEN BaseUrlOf(defaults) \o path ELSE path

\* The paths a client is called with: relative to its base URL when it has
\* one, the full URL otherwise.
ClientPaths(defaults) ==
  IF Truthy(BaseUrlOf(defaults)) THEN {"/resource"} ELSE {Url}

\* { ...defaultOptions, ...options }
MergedOptions(defaults, options) == Spread(DefaultOptionsOf(defaults), options)

\* the options handed to httpRequest: `body` is added by post, put and patch
VerbOptions(verb, defaults, options, body) ==
  IF verb.hasBody
  THEN Spread(MergedOptions(defaults, options), [body |-> body])
  ELSE MergedOptions(defaults, options)

\* client.get/post/put/patch/delete(path, [body,] options) on the client that
\* createHttpClient(defaults) returned: httpRequest is called with the merged
\* options.  `via` keeps what the client and the caller passed.
ClientCall(verb, path, options) ==
  /\ call.pc = "client"
  /\ call' = Spread(NewCall(verb.method, ClientUrl(call.defaults, path),
                            VerbOptions(verb, call.defaults, options, "payload")),
                    [via |-> [defaults |-> call.defaults, verb |-> verb.name,
                              path |-> path, options |-> options]])
  /\ UNCHANGED <<clock, rlVars, idemVars, timerVars>>

----------------------------------------------------------------------------
(* Initial values of the components a specification leaves alone *)

\* no run of the rate-limit middleware yet
NoCheck == [threw |-> FALSE, calls |-> <<>>]

RLIdle ==
  /\ limiters = EmptyMap
  /\ store = EmptyMap
  /\ inflight = [r \in RLRequests |-> 0]
  /\ winLog = [k \in RLKeys |-> <<>>]
  /\ lastCheck = NoCheck

IdemIdle ==
  /\ cache = EmptyMap
  /\ idem = EmptyMap
  /\ reqs = EmptyMap
  /\ emitOrder = EmptyMap

HttpIdle == call = [pc |-> "unused"]

TimerIdle ==
  cleaner = [handle |-> NoHandle, armed |-> {}, made |-> 0, console |-> <<>>]

----------------------------------------------------------------------------
(* Specification of the rate limiter: one limiter instance *)

InitRL ==
  /\ clock = 0
  /\ limiters \in [{1} -> RLOptions]
  /\ store = EmptyMap
  /\ inflight = [r \in RLRequests |-> 0]
  /\ winLog = [k \in RLKeys |-> <<>>]
  /\ lastCheck = NoCheck
  /\ IdemIdle
  /\ HttpIdle
  /\ TimerIdle

NextRL ==
  \/ Tick(MaxTime)
  \/ \E req \in RLRequests : Receive(req)
  \/ \E l \in DOMAIN limiters, req \in RLRequests : RateLimit(l, req)
  \/ CleanupExpiredEntries

SpecRL == InitRL /\ [][NextRL]_vars

----------------------------------------------------------------------------
(* Specification of two limiters made by two calls of rateLimit(): both    *)
(* close over the one module-level store                                   *)

\* the options the two limiters are made with
SharedOptions ==
  { [windowMs |-> w, max |-> m] : w \in 1..MaxWindow, m \in 1..MaxMax }

\* the requests sent through them: two shapes for which both limiters derive
\* the same key
SharedRequests == { r \in RLRequests : r.ip = "10.0.0.1" \/ r.xff = "10.0.0.1" }

InitShared ==
  /\ clock = 0
  /\ limiters \in [{1, 2} -> SharedOptions]
  /\ store = EmptyMap
  /\ inflight = [r \in RLRequests |-> 0]
  /\ winLog = [k \in RLKeys |-> <<>>]
  /\ lastCheck = NoCheck
  /\ IdemIdle
  /\ HttpIdle
  /\ TimerIdle

NextShared ==
  \/ Tick(MaxTime)
  \/ \E req \in SharedRequests : Receive(req)
  \/ \E l \in DOMAIN limiters, req \in SharedRequests : RateLimit(l, req)
  \/ CleanupExpiredEntries

SpecShared == InitShared /\ [][NextShared]_vars

----------------------------------------------------------------------------
(* Specification of the idempotency middleware: one middleware instance *)

InitIdem ==
  /\ clock = 0
  /\ idem \in [{1} -> IdemOptions]
  /\ cache = EmptyMap
  /\ reqs = EmptyMap
  /\ emitOrder = EmptyMap
  /\ RLIdle
  /\ HttpIdle
  /\ TimerIdle

NextIdem ==
  \/ Tick(MaxIdemTime)
  \/ \E i \in DOMAIN idem, req \in IdemRequests : Arrive(i, req)
  \/ \E r \in DOMAIN reqs, e \in Emissions : ResEmit(r, e)
  \/ CleanupExpiredEntries

SpecIdem == InitIdem /\ [][NextIdem]_vars

----------------------------------------------------------------------------
(* Specification of two idempotency middleware instances, made by two      *)
(* calls of idempotencyMiddleware(), one with ttlMs 1 and one with the     *)
(* default, mounted on two routes: both close over the one module-level    *)
(* cache                                                                   *)

\* The requests sent through them. The middleware reads req.method and the
\* Idempotency-Key header; `path` stands for what it does not read (route,
\* body, caller). The two header values trim to the same key.
ReplayRequests ==
  { [method |-> "POST", path |-> "/orders",
     headers |-> [n \in {"Idempotency-Key"} |-> <<"k">>]],
    [method |-> "POST", path |-> "/refunds",
     headers |-> [n \in {"Idempotency-Key"} |-> <<" ", "k", "\t">>]] }

\* What the business logic behind the two routes may emit: the server error
\* above and a client error.
ReplayEmissions ==
  { e \in Emissions : e.status >= 500 } \cup
    { [status |-> 404,
       contentType |-> [type |-> "string", value |-> "application/json"],
       body |-> "missing"] }

InitReplay ==
  /\ clock = 0
  /\ idem = (1 :> [ttlMs |-> 1]) @@ (2 :> EmptyMap)
  /\ cache = EmptyMap
  /\ reqs = EmptyMap
  /\ emitOrder = EmptyMap
  /\ RLIdle
  /\ HttpIdle
  /\ TimerIdle

NextReplay ==
  \/ Tick(MaxIdemTime)
  \/ \E i \in DOMAIN idem, req \in ReplayRequests : Arrive(i, req)
  \/ \E r \in DOMAIN reqs, e \in ReplayEmissions : ResEmit(r, e)
  \/ CleanupExpiredEntries

SpecReplay == InitReplay /\ [][NextReplay]_vars

----------------------------------------------------------------------------
(* Specification of a route guarded by requireIdempotencyKey in front of   *)
(* one idempotency middleware instance                                     *)

InitRequire ==
  /\ clock = 0
  /\ idem \in [{1} -> IdemOptions]
  /\ cache = EmptyMap
  /\ reqs = EmptyMap
  /\ emitOrder = EmptyMap
  /\ RLIdle
  /\ HttpIdle
  /\ TimerIdle

NextRequire ==
  \/ Tick(MaxIdemTime)
  \/ \E i \in DOMAIN idem, req \in RequireRequests : RequireThenArrive(i, req)
  \/ \E r \in DOMAIN reqs, e \in Emissions : ResEmit(r, e)
  \/ CleanupExpiredEntries

SpecRequire == InitRequire /\ [][NextRequire]_vars

----------------------------------------------------------------------------
(* Specification of the HTTP client: one call of httpRequest *)

InitHttp ==
  /\ clock = 0
  /\ \E m \in HttpMethods, opts \in HttpOptions :
       call = NewCall(m, Url, opts)
  /\ RLIdle
  /\ IdemIdle
  /\ TimerIdle

NextHttp ==
  \/ Tick(MaxHttpTime)
  \/ HttpRequest
  \/ \E o \in HttpResponses \cup HttpRejections : FetchSettles(o)
  \/ \E t \in call.timers : TimeoutFires(t)
  \/ SleepEnds

SpecHttp == InitHttp /\ [][NextHttp]_vars

----------------------------------------------------------------------------
(* Specification of one call of httpRequest whose awaits end: the event    *)
(* loop runs a timer that is due, every fetch settles or is aborted by its *)
(* timer, and time passes                                                  *)

\* The calls tried: a retryable method and one that is not, with options
\* that set retries, retryDelay and a timeout of 1, so that the timers of
\* the call are due within a few readings of the clock.
LiveMethods == { <<"G","E","T">>, <<"P","O","S","T">> }

LiveOptions ==
  { o \in HttpOptions :
      /\ {"retries", "retryDelay", "timeout"} \subseteq DOMAIN o
      /\ o.timeout = 1 }

InitHttpLive ==
  /\ clock = 0
  /\ \E m \in LiveMethods, opts \in LiveOptions : call = NewCall(m, Url, opts)
  /\ RLIdle
  /\ IdemIdle
  /\ TimerIdle

NextHttpLive ==
  \/ TimePasses
  \/ HttpRequest
  \/ \E o \in HttpResponses \cup HttpRejections : FetchSettles(o)
  \/ \E t \in call.timers : TimeoutFires(t)
  \/ SleepEnds

SpecHttpLive ==
  /\ InitHttpLive
  /\ [][NextHttpLive]_vars
  /\ WF_vars(TimePasses)
  /\ WF_vars(FetchEnds)
  /\ WF_vars(SleepEnds)

----------------------------------------------------------------------------
(* Specification of a client made by createHttpClient: one call through it *)

InitClient ==
  /\ clock = 0
  /\ \E d \in ClientDefaults : call = [pc |-> "client", defaults |-> d, timers |-> {}]
  /\ RLIdle
  /\ IdemIdle
  /\ TimerIdle

NextClient ==
  \/ /\ call.pc = "client"
     /\ \E verb \in ClientVerbs, options \in CallOptions,
           path \in ClientPaths(call.defaults) : ClientCall(verb, path, options)
  \/ Tick(MaxClientTime)
  \/ HttpRequest
  \/ \E o \in HttpResponses \cup HttpRejections : FetchSettles(o)
  \/ \E t \in call.timers : TimeoutFires(t)
  \/ SleepEnds

SpecClient == InitClient /\ [][NextClient]_vars

----------------------------------------------------------------------------
(* Specification of the sweeps: both stores filled at time 0, then swept   *)

\* Entries written at time 0 by limiters of different windows, checked once
\* or twice
SweepEntries ==
  { NewEntry(0, w) : w \in 0..MaxSweepTime }
    \cup { Increment(NewEntry(0, w)) : w \in 0..MaxSweepTime }

\* Records captured by requests that arrived at time 0, for different ttlMs
SweepRecords ==
  { CaptureAndStore(EmptyMap, <<"k">>, e, 0, t)[<<"k">>] :
      e \in Emissions, t \in 0..MaxSweepTime }

InitSweep ==
  /\ clock = 0
  /\ limiters = EmptyMap
  /\ store \in [RLKeys -> SweepEntries]
  /\ inflight = [r \in RLRequests |-> 0]
  /\ winLog = [k \in RLKeys |-> <<>>]
  /\ lastCheck = NoCheck
  /\ cache \in [{<<"k">>, <<"j">>} -> SweepRecords]
  /\ idem = EmptyMap
  /\ reqs = EmptyMap
  /\ emitOrder = EmptyMap
  /\ HttpIdle
  /\ TimerIdle

NextSweep ==
  \/ Tick(MaxSweepTime)
  \/ CleanupExpiredEntries

SpecSweep == InitSweep /\ [][NextSweep]_vars

----------------------------------------------------------------------------
(* Specification of the cleanup timer: a process that starts and stops it  *)

InitTimer ==
  /\ clock = 0
  /\ RLIdle
  /\ IdemIdle
  /\ HttpIdle
  /\ TimerIdle

NextTimer ==
  \/ \E args \in StartArgs : StartCacheCleanup(args)
  \/ StopCacheCleanup
  \/ \E t \in cleaner.armed : IntervalFires(t)

SpecTimer == InitTimer /\ [][NextTimer]_vars

----------------------------------------------------------------------------
(* Specification of the two expiring stores: a server that mounts either  *)
(* the rate limiter or the idempotency middleware, with the cleanup timer  *)

InitStores == InitRL \/ InitIdem

NextStores ==
  \/ limiters # EmptyMap /\ NextRL
  \/ idem # EmptyMap /\ NextIdem

SpecStores == InitStores /\ [][NextStores]_vars

----------------------------------------------------------------------------
(* Claims about the rate limiter, checked under SpecRL *)

\* the options of the one limiter of SpecRL
TheMax == MaxOf(limiters[1])

Allowed(log) == { i \in 1..Len(log) : log[i] = "allow" }

\* the rate-limit middleware ran for request shape req in this step
Checked(req) == inflight'[req] < inflight[req]

\* ... and its key generator returned k
CheckedKey(req, k) ==
  /\ Checked(req)
  /\ ~RunKeyGenerator(limiters[1], req).threw
  /\ RunKeyGenerator(limiters[1], req).key = k

\* ... and its key generator threw
CheckedThrew(req) ==
  Checked(req) /\ RunKeyGenerator(limiters[1], req).threw

TheWindowMs == WindowMsOf(limiters[1])

\* C1, as stated: with max = N >= 0, of the checks on one key inside one
\* window exactly the first N are allowed and all later ones are denied.
C1_ExactlyFirstN ==
  \A k \in RLKeys :
    TheMax >= 0 =>
      \A i \in 1..Len(winLog[k]) : (winLog[k][i] = "allow") <=> (i <= TheMax)

\* C1, amended: of the checks on one key inside one window exactly the first
\* max(N, 1) are allowed (the check that creates the entry always is) and
\* all later ones are denied.
C1_ExactlyFirstMaxN1 ==
  \A k \in RLKeys :
    \A i \in 1..Len(winLog[k]) :
      (winLog[k][i] = "allow") <=> (i <= Max(TheMax, 1))

\* a window with max = 2 that has seen two allowed checks and two denied ones
C1_Witness ==
  \E k \in RLKeys :
    /\ TheMax = 2
    /\ winLog[k] = <<"allow", "allow", "deny", "deny">>
    /\ MapHas(store, k) /\ clock < store[k].expiresAt

\* C6, as stated: with max <= 0 the first check for a key is denied.
C6_FirstCheckDenied ==
  \A k \in RLKeys :
    (TheMax <= 0 /\ Len(winLog[k]) >= 1) => winLog[k][1] = "deny"

\* C6, amended: with max <= 0 the limiter allows exactly one request per
\* window: the check that opens the window is allowed, every later one denied.
C6_OnePerWindow ==
  \A k \in RLKeys :
    TheMax <= 0 => Allowed(winLog[k]) = { i \in 1..Len(winLog[k]) : i = 1 }

\* a window under max = 0 with its first check allowed and two more refused
C6_Witness ==
  \E k \in RLKeys :
    TheMax = 0 /\ winLog[k] = <<"allow", "deny", "deny">>

\* C7: a check on a key without a live entry is allowed and stores count 1,
\* whatever max is; with max <= 0 the second check of the window is denied.
C7_FirstAllowedCountOne ==
  \A k \in RLKeys :
    /\ Len(winLog[k]) >= 1 => winLog[k][1] = "allow"
    /\ Len(winLog[k]) = 1 => (MapHas(store, k) /\ store[k].count = 1)
    /\ (TheMax <= 0 /\ Len(winLog[k]) >= 2) => winLog[k][2] = "deny"

\* a window under a negative max: first check allowed, second denied
C7_Witness ==
  \E k \in RLKeys :
    /\ TheMax < 0
    /\ Len(winLog[k]) = 2 /\ winLog[k][1] = "allow" /\ winLog[k][2] = "deny"
    /\ store[k].count = 1

\* C10: with max = N >= 1, of the m checks made on one key inside one window,
\* in whatever order the waiting requests are served, exactly min(m, N) are
\* allowed.
C10_NoLostUpdate ==
  \A k \in RLKeys :
    TheMax >= 1 =>
      Cardinality(Allowed(winLog[k])) = Min(Len(winLog[k]), TheMax)

\* three requests on one key were served in one window with max = 2 while a
\* further request on that key, sent by another client shape, still waits
C10_Witness ==
  \E r1, r2 \in RLRequests :
    /\ r1 # r2 /\ KeyGenerator(r1) = KeyGenerator(r2)
    /\ inflight[r1] >= 1 /\ inflight[r2] >= 1
    /\ TheMax = 2
    /\ Len(winLog[KeyGenerator(r1)]) = 3
    /\ Cardinality(Allowed(winLog[KeyGenerator(r1)])) = 2

\* C17: a check on a key whose entry is live (expiresAt > now) never moves
\* the expiry; if it is denied it leaves the entry as it was, if it is
\* allowed it adds one to the count.  A check on a key without a live entry
\* (at or after the expiry, or on an absent key) is allowed and opens a
\* window with count 1 that ends exactly windowMs later.
C17_FixedWindow ==
  [][ \A req \in RLRequests, k \in RLKeys :
        CheckedKey(req, k) =>
          LET out == winLog'[k][Len(winLog'[k])] IN
          IF MapHas(store, k) /\ store[k].expiresAt > clock
          THEN /\ store'[k].expiresAt = store[k].expiresAt
               /\ out = "deny" => store'[k] = store[k]
               /\ out = "allow" => store'[k].count = store[k].count + 1
          ELSE /\ out = "allow"
               /\ store'[k] = [count |-> 1, expiresAt |-> clock + TheWindowMs]
    ]_vars

\* at time 2 a window that was opened at time 1 with windowMs = 2 has seen
\* an allowed and a denied check and still ends at time 3
C17_Witness ==
  \E k \in RLKeys :
    /\ TheWindowMs = 2 /\ TheMax = 1
    /\ clock = 2
    /\ winLog[k] = <<"allow", "deny">>
    /\ MapHas(store, k) /\ store[k] = [count |-> 1, expiresAt |-> 3]

\* C18: with windowMs <= 0 every check whose generator returns opens a new
\* window, so it is allowed, whatever max is.
C18_NeverDenied ==
  [][ TheWindowMs <= 0 =>
        \A req \in RLRequests, k \in RLKeys :
          CheckedKey(req, k) =>
            /\ winLog'[k] = <<"allow">>
            /\ store'[k].count = 1
            /\ lastCheck'.calls = <<NoArg>>
    ]_vars

\* under windowMs = 0 and max = 0 a key was checked at time 1 and allowed,
\* and a further request for that key waits
C18_Witness ==
  \E req \in RLRequests :
    LET k == KeyGenerator(req) IN
    /\ TheWindowMs = 0 /\ TheMax = 0
    /\ MapHas(store, k) /\ store[k] = [count |-> 1, expiresAt |-> 1]
    /\ winLog[k] = <<"allow">>
    /\ lastCheck.calls = <<NoArg>>
    /\ inflight[req] >= 1

\* C19: a check whose key generator returns calls next() exactly once:
\* without an argument when it allows, and when it denies with an AppError
\* of code FORBIDDEN and status 429 whose message is the configured one
\* ("Too many requests" when none is configured).
C19_AllowOrDeny429 ==
  [][ \A req \in RLRequests, k \in RLKeys :
        CheckedKey(req, k) =>
          LET out == winLog'[k][Len(winLog'[k])]
              configured == IF "message" \in DOMAIN limiters[1]
                            THEN limiters[1].message ELSE "Too many requests"
          IN  /\ ~lastCheck'.threw
              /\ Len(lastCheck'.calls) = 1
              /\ out = "allow" => lastCheck'.calls[1] = [type |-> "undefined"]
              /\ out = "deny" =>
                   lastCheck'.calls[1] =
                     [type |-> "AppError", code |-> "FORBIDDEN",
                      status |-> 429, message |-> configured]
    ]_vars

\* a limiter configured with the empty message has denied a check with it
C19_Witness ==
  /\ "message" \in DOMAIN limiters[1] /\ limiters[1].message = ""
  /\ Len(lastCheck.calls) = 1
  /\ lastCheck.calls[1].type = "AppError"
  /\ lastCheck.calls[1].status = 429
  /\ lastCheck.calls[1].message = ""

\* C20: when the configured key generator throws, the exception leaves the
\* middleware: next() is not called and the store is as it was.
C20_GeneratorThrowPropagates ==
  [][ \A req \in RLRequests :
        CheckedThrew(req) =>
          /\ lastCheck'.threw
          /\ lastCheck'.calls = <<>>
          /\ store' = store
          /\ winLog' = winLog
    ]_vars

\* the generator threw for a request without ip while the store held the
\* entry of another client
C20_Witness ==
  /\ lastCheck.threw /\ lastCheck.calls = <<>>
  /\ \E k \in DOMAIN store : store[k].count = 1 /\ winLog[k] = <<"allow", "deny">>

----------------------------------------------------------------------------
(* Claims about the idempotency middleware, checked under SpecIdem *)

\* request r is a POST that carries a non-empty key
Keyed(r) == reqs[r].req.method = "POST" /\ reqs[r].key # <<>>

SameKey(r1, r2) == Keyed(r1) /\ Keyed(r2) /\ reqs[r1].key = reqs[r2].key

\* r0 had put a response on the wire (its own first emission, or a replay)
\* before the handler of request r ran
EmittedBefore(r0, r) ==
  \/ reqs[r0].phase = "replayed" /\ r0 < r
  \/ reqs[r0].stored /\ reqs[r0].seenAtEmit < r

\* the place of r among the first emissions made under its key
EmitPos(r) ==
  CHOOSE i \in 1..Len(emitOrder[reqs[r].key]) : emitOrder[reqs[r].key][i] = r

\* status, headers and body of the first emission of r, as a client sees them
ResponseOf(r) ==
  LET e == reqs[r].emitted[1]
  IN  [status |-> e.status,
       headers |-> IF e.contentType.type = "string"
                   THEN [n \in {"Content-Type"} |-> e.contentType.value]
                   ELSE EmptyMap,
       body |-> e.body]

\* the record the first emission of r leaves in the cache
RecordOf(r) ==
  [status |-> ResponseOf(r).status, headers |-> ResponseOf(r).headers,
   body |-> ResponseOf(r).body, expiresAt |-> reqs[r].now + reqs[r].ttlMs]

\* r1 emitted before r2's handler ran, no request with the same key emitted
\* between the two, and r2's handler ran less than ttlMs after r1's
FirstThenSecond(r1, r2) ==
  /\ r1 < r2 /\ SameKey(r1, r2)
  /\ reqs[r1].stored /\ reqs[r1].seenAtEmit < r2
  /\ \A r0 \in DOMAIN reqs \ {r1} :
       (SameKey(r0, r1) /\ reqs[r0].stored /\ reqs[r0].seenAtEmit < r2)
         => EmitPos(r0) < EmitPos(r1)
  /\ reqs[r2].now < reqs[r1].now + reqs[r1].ttlMs

\* C2: a POST that arrives after an earlier POST with the same key has emitted
\* its response, and less than ttlMs after that earlier POST reached the
\* middleware, is answered with the captured status, headers and body of the
\* earlier one, and next() is not called for it.
C2_DuplicateReplayed ==
  \A r1, r2 \in DOMAIN reqs :
    FirstThenSecond(r1, r2) =>
      /\ reqs[r2].phase = "replayed"
      /\ reqs[r2].replayed = <<ResponseOf(r1)>>
      /\ reqs[r2].nextCalls = 0

\* a duplicate sent with a padded key at a later time was answered with the
\* 500 response captured from the first request
C2_Witness ==
  \E r1, r2 \in DOMAIN reqs :
    /\ FirstThenSecond(r1, r2)
    /\ reqs[r1].req # reqs[r2].req
    /\ reqs[r2].now > reqs[r1].now
    /\ reqs[r2].replayed = <<ResponseOf(r1)>>
    /\ ResponseOf(r1).status = 500

\* C8, as stated: a record that has not expired is changed by no step.
C8_RecordImmutable ==
  [][ \A k \in DOMAIN cache :
        cache[k].expiresAt > clock => (MapHas(cache', k) /\ cache'[k] = cache[k])
    ]_vars

\* C8, amended: a record is deleted only by a lookup made at or after its
\* expiry, it is changed by no replay, and it is overwritten only by the first
\* emission of a request with the same key that had already passed the lookup
\* when the record's writer emitted (a concurrent duplicate).
C8_OnlyConcurrentOverwrites ==
  [][ \A k \in DOMAIN cache :
        /\ ~MapHas(cache', k) => cache[k].expiresAt <= clock
        /\ (MapHas(cache', k) /\ cache'[k] # cache[k]) =>
             \E r \in DOMAIN reqs :
               /\ reqs[r].key = k /\ ~reqs[r].stored /\ reqs'[r].stored
               /\ r <= reqs[emitOrder[k][Len(emitOrder[k])]].seenAtEmit
    ]_vars

\* a record was replayed to a later request, at a later time, and is still
\* the record its writer stored
C8_Witness ==
  \E r1, r2 \in DOMAIN reqs :
    /\ SameKey(r1, r2) /\ reqs[r1].stored
    /\ reqs[r2].phase = "replayed" /\ reqs[r2].now > reqs[r1].now
    /\ MapHas(cache, reqs[r1].key) /\ cache[reqs[r1].key] = RecordOf(r1)

\* r1 and r2 carry the same key and no request with that key had emitted
\* when the handler of r2, the later of the two, ran
BothBeforeEither(r1, r2) ==
  /\ r1 < r2 /\ SameKey(r1, r2)
  /\ \A r0 \in DOMAIN reqs : SameKey(r0, r2) => ~EmittedBefore(r0, r2)

\* C9: two POSTs with the same key that both arrive before either has emitted
\* both reach the business logic, and once both have emitted the cache holds
\* the response of whichever emitted last (until a lookup made at or after its
\* expiry deletes it, or a later request overwrites it).
C9_BothRunLastWriterWins ==
  \A r1, r2 \in DOMAIN reqs :
    BothBeforeEither(r1, r2) =>
      /\ reqs[r1].phase = "running" /\ reqs[r1].nextCalls = 1
      /\ reqs[r2].phase = "running" /\ reqs[r2].nextCalls = 1
      /\ (reqs[r1].stored /\ reqs[r2].stored) =>
           LET k == reqs[r1].key
               w == emitOrder[k][Len(emitOrder[k])]
           IN  w \in {r1, r2} =>
                 \/ MapHas(cache, k) /\ cache[k] = RecordOf(w)
                 \/ ~MapHas(cache, k) /\ RecordOf(w).expiresAt <= clock

\* both requests ran, the later arrival emitted first, and the cache holds
\* the different response of the earlier arrival, which emitted last
C9_Witness ==
  \E r1, r2 \in DOMAIN reqs :
    /\ BothBeforeEither(r1, r2)
    /\ reqs[r1].stored /\ reqs[r2].stored
    /\ emitOrder[reqs[r1].key] = <<r2, r1>>
    /\ ResponseOf(r1) # ResponseOf(r2)
    /\ cache[reqs[r1].key] = RecordOf(r1)

----------------------------------------------------------------------------
(* Claims about the HTTP client, checked under SpecHttp *)

\* GET, HEAD and OPTIONS in the spellings of HttpMethods
RetryableSpellings ==
  { <<"G","E","T">>, <<"g","e","t">>, <<"H","E","A","D">>,
    <<"O","p","t","i","o","n","s">> }

\* the attempt got a response, and its body was read
GotStatus(o) == o.kind = "response"

Success(o) == GotStatus(o) /\ o.status >= 200 /\ o.status <= 299

\* a retryable status: >= 500 and not 501
RetryableStatus(o) == GotStatus(o) /\ o.status >= 500 /\ o.status # 501

IsDependencyError(err) ==
  err.type = "AppError" /\ err.code = "INTERNAL_ERROR" /\ err.status = 503

\* C3: a call with a retryable method and retries = R >= 0 whose attempts so
\* far got retryable statuses, the last one possibly a success: fetch is
\* called once per attempt and at most R+1 times; the call goes on while
\* fewer than R+1 attempts have failed, returns the success of attempt k after
\* exactly k calls of fetch, and after R+1 failures raises an AppError with
\* code INTERNAL_ERROR and status 503.
C3_RetryUntilSuccessOrExhausted ==
  LET R == RetriesOf(call.options)
      n == Len(call.log)
  IN  ( /\ call.pc # "idle"
        /\ call.method \in RetryableSpellings
        /\ R >= 0
        /\ \A i \in 1..n :
             RetryableStatus(call.log[i]) \/ (i = n /\ Success(call.log[i])) )
      =>
      /\ call.fetchCalls <= R + 1
      /\ call.fetchCalls = n + (IF call.pc = "fetch" THEN 1 ELSE 0)
      /\ (n >= 1 /\ Success(call.log[n])) =>
           /\ call.pc = "returned"
           /\ call.result = [data |-> call.log[n].body,
                             status |-> call.log[n].status]
      /\ (n = R + 1 /\ RetryableStatus(call.log[n])) =>
           call.pc = "thrown" /\ IsDependencyError(call.error)
      /\ (n < R + 1 /\ (n = 0 \/ RetryableStatus(call.log[n]))) =>
           call.pc \in {"fetch", "sleep"}

\* a get with retries = 2 got 503 twice, then 200 at the third call of fetch
C3_Witness ==
  /\ call.pc = "returned"
  /\ call.method = <<"g","e","t">>
  /\ RetriesOf(call.options) = 2
  /\ Len(call.log) = 3
  /\ \A i \in 1..3 : GotStatus(call.log[i])
  /\ call.log[1].status = 503 /\ call.log[2].status = 503
  /\ call.log[3].status = 200
  /\ call.fetchCalls = 3

\* C4: for a method other than GET, HEAD, OPTIONS (in any case) fetch is
\* called exactly once whatever `retries` is, the call ends with that
\* attempt, and a 5xx response to it raises an AppError with code
\* INTERNAL_ERROR and status 503.
C4_OtherMethodsOneAttempt ==
  (call.pc # "idle" /\ call.method \notin RetryableSpellings) =>
    /\ call.fetchCalls = 1
    /\ Len(call.log) = 1 =>
         /\ call.pc \in {"returned", "thrown"}
         /\ (GotStatus(call.log[1]) /\ call.log[1].status >= 500) =>
              call.pc = "thrown" /\ IsDependencyError(call.error)

\* a POST with retries = 2 got a 503 and raised the dependency failure after
\* one call of fetch
C4_Witness ==
  /\ call.pc = "thrown"
  /\ call.method = <<"P","O","S","T">>
  /\ RetriesOf(call.options) = 2
  /\ Len(call.log) = 1 /\ call.log[1].kind = "response"
  /\ call.log[1].status = 503
  /\ call.fetchCalls = 1 /\ IsDependencyError(call.error)

\* C5: an attempt that gets a failure status below 500 is the last one: no
\* further call of fetch follows, and the call raises the raw Error that
\* carries that status and the response body, not an AppError.
C5_ClientErrorsNotRetried ==
  \A i \in 1..Len(call.log) :
    (GotStatus(call.log[i]) /\ ~Success(call.log[i]) /\ call.log[i].status < 500)
      =>
      /\ i = Len(call.log)
      /\ call.fetchCalls = i
      /\ call.pc = "thrown"
      /\ call.error.type = "Error"
      /\ call.error.status = call.log[i].status
      /\ call.error.data = call.log[i].body

\* a GET with retries = 2 got a 404 at its first attempt and raised it as it
\* is after one call of fetch
C5_Witness ==
  /\ call.pc = "thrown"
  /\ call.method = <<"G","E","T">>
  /\ RetriesOf(call.options) = 2
  /\ Len(call.log) = 1 /\ call.log[1].kind = "response"
  /\ call.log[1].status = 404
  /\ call.fetchCalls = 1
  /\ call.error.type = "Error" /\ call.error.status = 404

\* the outcome of the attempt made last
LastOutcome == call.log[Len(call.log)]

\* the call ended by throwing what its last attempt led to
Surfaced == call.pc = "thrown" /\ Len(call.log) >= 1

\* the attempt ended in an exception: fetch rejected, was aborted, or the
\* read of the response body threw
Exception(o) == o.kind \in {"rejected", "aborted", "bodyError"}

\* connection refused, host not found, or abort
ConnectionClass(o) ==
  /\ o.kind \in {"rejected", "aborted"}
  /\ o.code \in {"ECONNREFUSED", "ENOTFOUND"} \/ o.name = "AbortError"

\* what the client retries: the above, ETIMEDOUT, and 5xx other than 501
Transient(o) ==
  \/ ConnectionClass(o)
  \/ o.kind = "rejected" /\ o.code = "ETIMEDOUT"
  \/ RetryableStatus(o)

\* the error states a number of attempts
StatesAttempts(err) == "attempts" \in DOMAIN err

C14_TransientSurfacedAs503 ==
  ( /\ Surfaced
    /\ call.shouldRetry
    /\ Len(call.log) = call.maxAttempts
    /\ \A i \in 1..Len(call.log) : Transient(call.log[i]) )
  => IsDependencyError(call.error)

\* a GET with retries = 2 timed out with ETIMEDOUT three times and raised the
\* native error of the last attempt
C14_Witness ==
  /\ Surfaced
  /\ call.method = <<"G","E","T">>
  /\ Len(call.log) = 3
  /\ \A i \in 1..3 :
       call.log[i].kind = "rejected" /\ call.log[i].code = "ETIMEDOUT"
  /\ call.error.type = "Error" /\ call.error.code = "ETIMEDOUT"

\* C15, as stated: the dependency-failure error raised by a call that has
\* used all of its attempts without success states the number of attempts
\* made.
C15_ExhaustedStatesCount ==
  ( /\ Surfaced
    /\ Len(call.log) = call.maxAttempts
    /\ IsDependencyError(call.error) )
  => (StatesAttempts(call.error) /\ call.error.attempts = Len(call.log))

\* C15, amended: the error that states a number of attempts is raised exactly
\* by a call whose loop makes no attempt (maxAttempts <= 0, that is a
\* retryable method with retries < 0); it is a 503 dependency failure and
\* states maxAttempts.  A call that has used all of its attempts raises what
\* its last failure maps to, which states no number of attempts.
C15_CountOnlyWithoutAttempts ==
  call.pc = "thrown" =>
    /\ StatesAttempts(call.error) <=> call.maxAttempts <= 0
    /\ StatesAttempts(call.error) =>
         /\ call.fetchCalls = 0 /\ call.log = <<>>
         /\ IsDependencyError(call.error)
         /\ call.error.attempts = call.maxAttempts
    /\ Len(call.log) >= 1 =>
         \/ call.error.type = "Error"
         \/ /\ GotStatus(LastOutcome)
            /\ call.error = DependencyFailed(LastOutcome)
         \/ /\ ConnectionClass(LastOutcome)
            /\ call.error = ServiceUnavailable(ThrownError(LastOutcome))

\* a GET with retries = 2 got 503 three times and raised the dependency
\* failure of the third response, which names the status and no count
C15_Witness ==
  /\ Surfaced
  /\ call.maxAttempts = 3 /\ Len(call.log) = 3
  /\ \A i \in 1..3 : GotStatus(call.log[i]) /\ call.log[i].status = 503
  /\ IsDependencyError(call.error)
  /\ ~StatesAttempts(call.error)
  /\ call.error.details.status = 503

\* an attempt was aborted in this step
AbortedNow ==
  /\ call.pc = "fetch"
  /\ Len(call'.log) = Len(call.log) + 1
  /\ call'.log[Len(call'.log)].kind = "aborted"

\* C16: an attempt is aborted only when at least `timeout` has passed since
\* it started; a call that has ended with every attempt aborted has raised an
\* AppError with code INTERNAL_ERROR and status 503.
C16_AbortOnlyAfterTimeout ==
  [][ /\ AbortedNow => clock >= call.startedAt + call.timeout
      /\ ( /\ call'.pc \in {"returned", "thrown"}
           /\ Len(call'.log) >= 1
           /\ \A i \in 1..Len(call'.log) : call'.log[i].kind = "aborted" )
         => (call'.pc = "thrown" /\ IsDependencyError(call'.error))
    ]_vars

\* a GET with retries = 1 had both attempts aborted by their timers and
\* raised the 503; the second attempt began after the backoff
C16_Witness ==
  /\ Surfaced
  /\ call.method = <<"G","E","T">>
  /\ call.timeout = 1 /\ call.retryDelay = 1
  /\ Len(call.log) = 2
  /\ call.log[1].kind = "aborted" /\ call.log[2].kind = "aborted"
  /\ IsDependencyError(call.error)

----------------------------------------------------------------------------
(* Claims about the two expiring stores, checked under SpecStores *)

\* request r reached the idempotency middleware in this step
Arrived(r) == r \in DOMAIN reqs' /\ r \notin DOMAIN reqs

\* request r made its first emission in this step
FirstEmission(r) == r \in DOMAIN reqs /\ ~reqs[r].stored /\ reqs'[r].stored

\* C11: in both stores an entry with expiresAt <= now takes part in no
\* decision made at time now.  A rate-limit check that finds one opens a new
\* window (allowed, count 1, expiry now + windowMs) without comparing its
\* count; an idempotent POST that finds one is not answered from it but runs,
\* and the key is absent after the lookup.  A key that is absent comes back
\* only by a new write: a check that creates the entry, or a first emission.
C11_ExpiredNeverUsed ==
  [][ /\ \A req \in RLRequests, k \in DOMAIN store :
           (CheckedKey(req, k) /\ store[k].expiresAt <= clock)
             => /\ winLog'[k] = <<"allow">>
                /\ store'[k] = [count |-> 1,
                                expiresAt |-> clock + WindowMsOf(limiters[1])]
      /\ \A k \in DOMAIN store' \ DOMAIN store :
           /\ \E req \in RLRequests : CheckedKey(req, k)
           /\ store'[k].count = 1
      /\ \A r \in DOMAIN reqs' :
           LET k == reqs'[r].key IN
           (Arrived(r) /\ MapHas(cache, k) /\ cache[k].expiresAt <= clock)
             => /\ reqs'[r].phase = "running"
                /\ reqs'[r].replayed = <<>>
                /\ reqs'[r].nextCalls = 1
                /\ ~MapHas(cache', k)
      /\ \A k \in DOMAIN cache' \ DOMAIN cache :
           \E r \in DOMAIN reqs : FirstEmission(r) /\ reqs[r].key = k
    ]_vars

\* a POST that arrived at the expiry of the record stored under its key, a
\* record with another status than 200, was passed on to the business logic,
\* and the key is absent from the cache
C11_Witness ==
  \E r1, r2 \in DOMAIN reqs :
    /\ r1 < r2 /\ SameKey(r1, r2)
    /\ reqs[r1].stored /\ reqs[r1].seenAtEmit < r2
    /\ ResponseOf(r1).status = 500
    /\ reqs[r1].ttlMs = 1
    /\ reqs[r2].now = reqs[r1].now + reqs[r1].ttlMs
    /\ reqs[r2].phase = "running" /\ ~reqs[r2].stored
    /\ ~MapHas(cache, reqs[r2].key)

\* a run of cleanupExpiredEntries() that deletes something
Swept ==
  /\ clock' = clock /\ inflight' = inflight /\ reqs' = reqs
  /\ \E now \in HrTimeMs(clock) :
       /\ store' = CleanupRateLimitCache(store, now)
       /\ cache' = CleanupIdempotencyCache(cache, now)

\* C12, as stated: when cleanupExpiredEntries() has run at wall-clock time t
\* neither store holds an entry with expiresAt <= t.
C12_SweptClean ==
  [][ Swept =>
        /\ \A k \in DOMAIN store' : store'[k].expiresAt > clock
        /\ \A k \in DOMAIN cache' : cache'[k].expiresAt > clock
    ]_vars

----------------------------------------------------------------------------
(* Claims about one intercepted request *)

\* C21: once an intercepted request has made its first emission (stored is
\* set), every later emission on the same response is only passed on to the
\* original emitter: the step leaves the cache and the captured emission as
\* they were, so one request writes the cache at most once.
C21_CaptureOnce ==
  [][\A r \in DOMAIN reqs :
       (reqs[r].stored /\ reqs'[r] # reqs[r])
         => /\ cache' = cache
            /\ emitOrder' = emitOrder
            /\ reqs'[r].emitted = reqs[r].emitted
            /\ reqs'[r].again]_vars

\* C21 witness: a request emitted 200 first and emitted again later, and the
\* cache holds the record of the first emission.
C21_Witness ==
  \E r \in DOMAIN reqs :
    /\ reqs[r].stored /\ reqs[r].again
    /\ reqs[r].emitted[1].status = 200
    /\ MapHas(cache, reqs[r].key)
    /\ cache[reqs[r].key] = RecordOf(r)
    /\ emitOrder[reqs[r].key] = <<r>>

\* C22, as stated: every replay emits the status, headers and body captured
\* from an earlier request with the same key, its headers hold Content-Type,
\* and every record of the cache holds a Content-Type header.
C22_ReplayCarriesContentType ==
  /\ \A r \in DOMAIN reqs :
       reqs[r].phase = "replayed"
         => /\ \E r1 \in DOMAIN reqs :
                 /\ r1 < r /\ SameKey(r1, r) /\ reqs[r1].stored
                 /\ reqs[r].replayed = <<ResponseOf(r1)>>
            /\ MapHas(reqs[r].replayed[1].headers, "Content-Type")
  /\ \A k \in DOMAIN cache : MapHas(cache[k].headers, "Content-Type")

\* C22 witness: a POST is answered by a replay that has the captured status
\* and body and no Content-Type header, from a record without one.
C22_Witness ==
  \E r1, r2 \in DOMAIN reqs :
    /\ r1 < r2 /\ SameKey(r1, r2)
    /\ reqs[r1].stored /\ reqs[r1].emitted[1].contentType.type = "undefined"
    /\ reqs[r2].phase = "replayed"
    /\ reqs[r2].replayed = <<ResponseOf(r1)>>
    /\ ~MapHas(reqs[r2].replayed[1].headers, "Content-Type")
    /\ MapHas(cache, reqs[r1].key)
    /\ cache[reqs[r1].key].headers = EmptyMap

\* the request is not a POST, or has no Idempotency-Key header, or has one
\* that is empty after trimming
Unkeyed(req) ==
  \/ req.method # "POST"
  \/ ~MapHas(req.headers, "Idempotency-Key")
  \/ Trim(req.headers["Idempotency-Key"]) = <<>>

\* C23: a request that is not a POST, or whose Idempotency-Key is absent or
\* empty after trimming, is passed to next() once; its arrival leaves the
\* cache as it was (no lookup, no lazy deletion, no write), it is never
\* answered by a replay and nothing it emits is captured.
C23_PassThrough ==
  /\ [](\A r \in DOMAIN reqs :
          Unkeyed(reqs[r].req)
            => /\ reqs[r].phase = "passed"
               /\ reqs[r].nextCalls = 1
               /\ ~reqs[r].stored
               /\ reqs[r].emitted = <<>>
               /\ reqs[r].replayed = <<>>)
  /\ [][\A r \in (DOMAIN reqs') \ (DOMAIN reqs) :
          Unkeyed(reqs'[r].req) => (cache' = cache /\ emitOrder' = emitOrder)]_vars

\* C23 witness: a POST under "k" is stored, and a GET carrying "k" that arrived
\* after it was handed to next() although the cache holds a record under "k".
C23_Witness ==
  \E r1, r2 \in DOMAIN reqs :
    /\ r1 < r2
    /\ reqs[r1].stored /\ reqs[r1].seenAtEmit < r2
    /\ reqs[r2].req.method = "GET"
    /\ MapHas(reqs[r2].req.headers, "Idempotency-Key")
    /\ Trim(reqs[r2].req.headers["Idempotency-Key"]) = reqs[r1].key
    /\ MapHas(cache, reqs[r1].key)
    /\ reqs[r2].phase = "passed" /\ reqs[r2].nextCalls = 1

\* the Idempotency-Key header of request r as it was sent
SentKey(r) == reqs[r].req.headers["Idempotency-Key"]

\* r1 and r2 are POSTs whose Idempotency-Key values differ, and differ only
\* in leading or trailing whitespace
PaddingApart(r1, r2) ==
  /\ reqs[r1].req.method = "POST" /\ reqs[r2].req.method = "POST"
  /\ MapHas(reqs[r1].req.headers, "Idempotency-Key")
  /\ MapHas(reqs[r2].req.headers, "Idempotency-Key")
  /\ SentKey(r1) # SentKey(r2)
  /\ Trim(SentKey(r1)) = Trim(SentKey(r2))
  /\ Trim(SentKey(r1)) # <<>>

\* C24: when two POSTs carry keys that differ only in padding, the earlier
\* one has emitted before the later one arrives (and is the only request that
\* has), and the later one arrives less than ttlMs after the earlier, then
\* the later one is answered with the response captured from the earlier one
\* and next() is not called; this in either order of padded and unpadded.
C24_PaddedKeySameRecord ==
  \A r1, r2 \in DOMAIN reqs :
    ( /\ r1 < r2 /\ PaddingApart(r1, r2)
      /\ reqs[r1].stored /\ reqs[r1].seenAtEmit < r2
      /\ \A r0 \in DOMAIN reqs \ {r1, r2} :
           ~(reqs[r0].stored /\ reqs[r0].seenAtEmit < r2)
      /\ reqs[r2].now < reqs[r1].now + reqs[r1].ttlMs )
      => /\ reqs[r2].phase = "replayed"
         /\ reqs[r2].nextCalls = 0
         /\ reqs[r2].replayed = <<ResponseOf(r1)>>

\* C24 witness: the response captured under the padded key " k\t" is
\* replayed to a later POST that carries "k".
C24_Witness ==
  \E r1, r2 \in DOMAIN reqs :
    /\ r1 < r2 /\ PaddingApart(r1, r2)
    /\ SentKey(r1) = <<" ", "k", "\t">> /\ SentKey(r2) = <<"k">>
    /\ reqs[r1].stored /\ reqs[r1].seenAtEmit < r2
    /\ reqs[r2].phase = "replayed"
    /\ reqs[r2].replayed = <<ResponseOf(r1)>>

----------------------------------------------------------------------------
(* Claims about the sweeps *)

\* the values of `now` the sweeps are called with
SweepTimes == 0..(MaxSweepTime + 1)

\* C25: on every store and cache, full or already swept, and for every now,
\* _cleanupRateLimitCache(now) and _cleanupIdempotencyCache(now) leave
\* exactly the entries with expiresAt > now, each with the value it had, and
\* a second sweep with the same now changes nothing more.
C25_SweepExactIdempotent ==
  \A now \in SweepTimes :
    LET s1 == CleanupRateLimitCache(store, now)
        c1 == CleanupIdempotencyCache(cache, now)
    IN  /\ DOMAIN s1 = { k \in DOMAIN store : store[k].expiresAt > now }
        /\ \A k \in DOMAIN s1 : s1[k] = store[k]
        /\ CleanupRateLimitCache(s1, now) = s1
        /\ DOMAIN c1 = { k \in DOMAIN cache : cache[k].expiresAt > now }
        /\ \A k \in DOMAIN c1 : c1[k] = cache[k]
        /\ CleanupIdempotencyCache(c1, now) = c1

\* C25 witness: the state after a sweep at time 1 of stores that held two
\* entries each: the entry and the record that expire at 1 are gone, the
\* ones that expire at 2 are there as they were written.
C25_Witness ==
  /\ clock = 1
  /\ DOMAIN store = {"unknown"}
  /\ store["unknown"] = Increment(NewEntry(0, 2))
  /\ DOMAIN cache = {<<"j">>}
  /\ cache[<<"j">>].expiresAt = 2 /\ cache[<<"j">>].status = 200

----------------------------------------------------------------------------
(* Claims about the cleanup timer *)

\* the last line written to the console
LastLine(c) == c.console[Len(c.console)]

\* the step wrote exactly one line to the console
WroteLine ==
  /\ Len(cleaner'.console) = Len(cleaner.console) + 1
  /\ SubSeq(cleaner'.console, 1, Len(cleaner.console)) = cleaner.console

\* C26: at most one interval is armed at any time, and it is the one
\* cleanupIntervalHandle stands for.  While the timer runs, a call changes
\* the timer only by stopping it (no interval armed afterwards) or, for a
\* start, by writing the warning; while it is stopped, a call changes it only
\* by arming one new interval, and stop changes nothing.
C26_AtMostOneInterval ==
  /\ [](/\ Cardinality(cleaner.armed) <= 1
        /\ (cleaner.handle = NoHandle) <=> (cleaner.armed = {})
        /\ \A t \in cleaner.armed : t.id = cleaner.handle)
  /\ [][cleaner' # cleaner =>
          IF cleaner.armed # {}
          THEN \/ /\ cleaner'.armed = cleaner.armed
                  /\ cleaner'.handle = cleaner.handle
                  /\ WroteLine /\ LastLine(cleaner').level = "warn"
               \/ /\ cleaner'.armed = {}
                  /\ cleaner'.handle = NoHandle
                  /\ WroteLine /\ LastLine(cleaner').text = "[CacheCleanup] Stopped"
          ELSE /\ Cardinality(cleaner'.armed) = 1
               /\ \A t \in cleaner'.armed : t.id > cleaner.made
               /\ WroteLine /\ LastLine(cleaner').level = "log"
               /\ LastLine(cleaner').text = "[CacheCleanup] Started with interval"]_vars

\* C26 witness: start, start again (warned), stop, start: the second
\* interval is the only one armed.
C26_Witness ==
  /\ Len(cleaner.console) = 4
  /\ cleaner.console[1].level = "log"
  /\ cleaner.console[2].level = "warn"
  /\ cleaner.console[3].text = "[CacheCleanup] Stopped"
  /\ cleaner.console[4].text = "[CacheCleanup] Started with interval"
  /\ cleaner.made = 2
  /\ cleaner.armed = {[id |-> 2, intervalMs |-> cleaner.console[4].intervalMs]}

----------------------------------------------------------------------------
(* Claims about the retry loop of one httpRequest call *)

\* fetch calls whose outcome is not known yet
InFlight(c) == c.fetchCalls - Len(c.log)

\* the step calls fetch
StartsAttempt == call'.fetchCalls = call.fetchCalls + 1

\* the step ends attempt k in a failure that is followed by a backoff
FailsIntoBackoff(k) ==
  /\ call.pc = "fetch" /\ call.attempt = k
  /\ call'.pc = "sleep"

\* C27: at most one fetch of the call is in flight, and that only while the
\* function waits for fetch; attempt N+1 is started only from the backoff
\* sleep that followed attempt N, when the outcome of attempt N is known and
\* was a failure and the sleep's delay has elapsed.
C27_Sequential ==
  /\ [](InFlight(call) \in {0, 1} /\ (InFlight(call) = 1 <=> call.pc = "fetch"))
  /\ [][(StartsAttempt /\ call.fetchCalls >= 1)
          => /\ call.pc = "sleep"
             /\ call.attempt = call.fetchCalls
             /\ call'.attempt = call.attempt + 1
             /\ Len(call.log) = call.attempt
             /\ ~Success(call.log[call.attempt])
             /\ clock >= call.wakeAt]_vars

\* C27 witness: the third attempt is in flight after two failures, with a
\* retry delay of 1: it started no earlier than time 3.
C27_Witness ==
  /\ call.pc = "fetch"
  /\ call.retryDelay = 1
  /\ call.fetchCalls = 3 /\ Len(call.log) = 2
  /\ call.startedAt >= 3

----------------------------------------------------------------------------
(* Claims about the outbound headers *)

\* httpRequest has built its headers and called fetch
Ran == call.pc \notin {"unused", "client", "idle"}

\* an inbound request was supplied and has a non-empty Authorization header
InboundHasAuth ==
  /\ "req" \in DOMAIN call.options
  /\ "authorization" \in DOMAIN call.options.req.headers
  /\ call.options.req.headers["authorization"] # ""

InboundAuth == call.options.req.headers["authorization"]

\* the option propagateAuth, true when it is not given
PropagateAuthOn ==
  "propagateAuth" \in DOMAIN call.options => call.options.propagateAuth

\* C29: when an inbound request with an Authorization header is supplied and
\* propagateAuth is true (given or by default), the outbound Authorization
\* header is the inbound value, whatever Authorization the caller's or the
\* client's own headers name; when propagateAuth is false no outbound header
\* carries the inbound value.
C29_AuthPropagation ==
  (Ran /\ InboundHasAuth)
    => IF PropagateAuthOn
       THEN /\ MapHas(call.finalHeaders, "Authorization")
            /\ call.finalHeaders["Authorization"] = InboundAuth
       ELSE \A n \in DOMAIN call.finalHeaders : call.finalHeaders[n] # InboundAuth

\* C29 witness: the caller's headers name "Bearer own", the inbound request
\* carries "Bearer inbound", propagateAuth is left at its default, and the
\* fetch was made with "Bearer inbound".
C29_Witness ==
  /\ Ran /\ InboundHasAuth
  /\ "propagateAuth" \notin DOMAIN call.options
  /\ "headers" \in DOMAIN call.options
  /\ MapHas(call.options.headers, "Authorization")
  /\ call.options.headers["Authorization"] = "Bearer own"
  /\ InboundAuth = "Bearer inbound"
  /\ call.finalHeaders["Authorization"] = "Bearer inbound"

\* the call was made through a client whose defaults configure headers
ViaClientWithHeaders ==
  /\ Ran /\ "via" \in DOMAIN call
  /\ "headers" \in DOMAIN call.via.defaults

\* the headers the caller passed with the call, none when it passed none
OwnHeaders ==
  IF "headers" \in DOMAIN call.via.options
  THEN call.via.options.headers ELSE EmptyMap

\* C30, as stated: every header configured as a client default is sent on
\* every request made through the client; it has the default's value unless
\* the call's own headers name it (then it has theirs) or it is the
\* Authorization header taken from the inbound request.
C30_DefaultHeadersAlwaysSent ==
  ViaClientWithHeaders
    => \A n \in DOMAIN call.via.defaults.headers :
         /\ MapHas(call.finalHeaders, n)
         /\ call.finalHeaders[n] =
              IF n = "Authorization" /\ InboundHasAuth /\ PropagateAuthOn
              THEN InboundAuth
              ELSE IF MapHas(OwnHeaders, n) THEN OwnHeaders[n]
              ELSE call.via.defaults.headers[n]

\* C30 witness: the client was made with the default header X-Service-Name,
\* the call passed the header X-Trace, and the fetch was made with X-Trace
\* and without X-Service-Name.
C30_Witness ==
  /\ ViaClientWithHeaders
  /\ MapHas(call.via.defaults.headers, "X-Service-Name")
  /\ OwnHeaders = ("X-Trace" :> "t-1")
  /\ MapHas(call.finalHeaders, "X-Trace")
  /\ ~MapHas(call.finalHeaders, "X-Service-Name")

----------------------------------------------------------------------------
(* Further claims about the rate limiter *)

\* the entry of key k2 is the same before and after the step
EntryUntouched(k2) ==
  /\ MapHas(store', k2) <=> MapHas(store, k2)
  /\ MapHas(store, k2) => store'[k2] = store[k2]
  /\ winLog'[k2] = winLog[k2]

\* C31: a check whose generator returns key k leaves the entry of every
\* other key as it was (present or absent, count, expiry), and its decision
\* is settled by the entry of k alone: it denies exactly when k has an entry
\* that is not expired and whose count has reached max.
C31_OnlyOwnEntry ==
  [][\A req \in RLRequests, k \in RLKeys :
       CheckedKey(req, k)
         => /\ \A k2 \in RLKeys \ {k} : EntryUntouched(k2)
            /\ (lastCheck'.calls[1].type = "AppError")
                 <=> /\ MapHas(store, k)
                     /\ store[k].expiresAt > clock
                     /\ store[k].count >= TheMax]_vars

\* C31 witness: under max = 2 the two keys have counters of their own: one
\* key was checked twice and the other once, in the same window.
C31_Witness ==
  /\ TheMax = 2
  /\ DOMAIN store = {"10.0.0.1", "unknown"}
  /\ store["10.0.0.1"].count = 2 /\ winLog["10.0.0.1"] = <<"allow", "allow">>
  /\ store["unknown"].count = 1 /\ winLog["unknown"] = <<"allow">>
  /\ store["10.0.0.1"].expiresAt = store["unknown"].expiresAt

\* C34: under one limiter configuration every entry of the store has a
\* count of at least 1 (so count >= 0) and at most max(max, 1): the count
\* never exceeds max when max >= 1.
C34_CountWithinBounds ==
  \A k \in DOMAIN store :
    /\ store[k].count >= 0
    /\ 1 <= store[k].count
    /\ store[k].count <= Max(TheMax, 1)
    /\ TheMax >= 1 => store[k].count <= TheMax

\* C34 witness: with max = 2 a key was allowed twice and then denied twice;
\* its count stands at 2.
C34_Witness ==
  \E k \in DOMAIN store :
    /\ TheMax = 2
    /\ winLog[k] = <<"allow", "allow", "deny", "deny">>
    /\ store[k].count = 2

\* the key limiter l derives for request shape req
KeyOf(l, req) == RunKeyGenerator(limiters[l], req).key

\* the entry of key k is inside its window
Live(k) == MapHas(store, k) /\ store[k].expiresAt > clock

\* C35: the limiters share one store. Whichever limiter l checks a request,
\* it finds the entry any limiter left for the key: inside the window it
\* keeps the window's end, denies exactly when the count of all allowed
\* checks has reached its own max, and otherwise adds one to that count;
\* outside a window it creates the entry with its own windowMs. The count of
\* an entry is the number of checks allowed on the key by either limiter.
C35_OneSharedStore ==
  /\ [](\A k \in DOMAIN store :
          store[k].count = Cardinality(Allowed(winLog[k])))
  /\ [][\A l \in DOMAIN limiters, req \in SharedRequests :
          RateLimit(l, req) =>
            LET k == KeyOf(l, req)
                denied == lastCheck'.calls[1].type = "AppError"
            IN  IF Live(k)
                THEN /\ store'[k].expiresAt = store[k].expiresAt
                     /\ denied <=> store[k].count >= limiters[l].max
                     /\ store'[k].count =
                          IF denied THEN store[k].count ELSE store[k].count + 1
                ELSE /\ ~denied
                     /\ store'[k] =
                          [count |-> 1,
                           expiresAt |-> clock + limiters[l].windowMs]]_vars

\* C35 witness: limiter 1 (max 2, windowMs 2) created the entry at time 0,
\* and limiter 2 (max 1, windowMs 1) denied the next request on the key
\* at time 1, inside the window of limiter 1 and past a window of its own.
C35_Witness ==
  /\ limiters[1] = [windowMs |-> 2, max |-> 2]
  /\ limiters[2] = [windowMs |-> 1, max |-> 1]
  /\ clock = 1
  /\ MapHas(store, "10.0.0.1")
  /\ store["10.0.0.1"] = [count |-> 1, expiresAt |-> 2]
  /\ winLog["10.0.0.1"] = <<"allow", "deny">>
  /\ lastCheck.calls = <<TooManyRequests(DEFAULT_MESSAGE)>>

----------------------------------------------------------------------------
(* Further claims about one httpRequest call *)

\* C32: an attempt that gets status 501 is the last one, whatever the method
\* and the attempts left (no further call of fetch follows), and the call
\* raises an AppError with code INTERNAL_ERROR and status 503 whose details
\* carry the status 501.
C32_NotImplementedNotRetried ==
  \A i \in 1..Len(call.log) :
    (GotStatus(call.log[i]) /\ call.log[i].status = 501)
      => /\ i = Len(call.log)
         /\ call.fetchCalls = i
         /\ call.pc = "thrown"
         /\ call.error.type = "AppError"
         /\ call.error.code = "INTERNAL_ERROR"
         /\ call.error.status = 503
         /\ call.error.details.status = 501

\* C32 witness: a GET with retries = 2 got 501 at its first attempt: one
\* call of fetch, and the dependency failure is raised.
C32_Witness ==
  /\ call.pc = "thrown"
  /\ call.method = <<"G", "E", "T">>
  /\ call.maxAttempts = 3
  /\ Len(call.log) = 1 /\ GotStatus(call.log[1]) /\ call.log[1].status = 501
  /\ call.fetchCalls = 1
  /\ call.error.type = "AppError" /\ call.error.status = 503
  /\ call.error.details = [url |-> Url, status |-> 501]

\* the call has returned a result or raised an error
Ended == call.pc \in {"returned", "thrown"}

\* C39, as stated: a call that has returned or raised has called fetch at
\* least once, whatever `retries` and the method are.
C39_AtLeastOneFetch == Ended => call.fetchCalls >= 1

\* C39: a GET with retries = -1 has raised "Request failed after 0 attempts"
\* without a call of fetch.
C39_Witness ==
  /\ call.pc = "thrown"
  /\ call.method = <<"G", "E", "T">>
  /\ RetriesOf(call.options) = -1
  /\ call.maxAttempts = 0
  /\ call.fetchCalls = 0 /\ call.log = <<>>
  /\ call.error = RequestFailedAfter(0, NoError)

\* C40 (checked under SpecHttpLive, where every fetch settles or is aborted
\* and every backoff delay elapses): a call makes at most max(retries + 1, 1)
\* attempts, and a call that has begun ends, by returning a result or by
\* raising an error.
C40_EndsWithinAttempts ==
  /\ [](call.fetchCalls <= Max(RetriesOf(call.options) + 1, 1))
  /\ (Ran ~> Ended)

\* C40 witness: a GET with retries = 2 has ended after the three attempts it
\* may make and the two backoff sleeps between them.
C40_Witness ==
  /\ Ended
  /\ IsRetryableMethod(call.method)
  /\ RetriesOf(call.options) = 2
  /\ call.retryDelay = 1
  /\ call.fetchCalls = 3 /\ Len(call.log) = 3
  /\ clock >= 3

----------------------------------------------------------------------------
(* Further claims about the idempotency middleware *)

\* C33, as stated: the record written by the first emission of a request
\* has expiresAt equal to the time of the emission plus ttlMs, and with
\* ttlMs > 0 it is not expired at the moment it is written.
C33_ExpiryFromEmission ==
  [][\A r \in DOMAIN reqs :
       FirstEmission(r)
         => /\ MapHas(cache', reqs[r].key)
            /\ cache'[reqs[r].key].expiresAt = clock + reqs[r].ttlMs
            /\ reqs[r].ttlMs > 0 => cache'[reqs[r].key].expiresAt > clock]_vars

----------------------------------------------------------------------------
(* Claims about two idempotency middleware instances, checked under        *)
(* SpecReplay                                                              *)

\* the record under key k can still answer a request that arrives now
LiveRecord(k) == MapHas(cache, k) /\ cache[k].expiresAt > clock

\* C36: the first emission of a keyed POST is captured whatever its status.
\* When it carries an error status (>= 400) the record written under the key
\* has that status, headers and body; a POST that arrives with the key while
\* the record has not expired is answered with the stored error and next()
\* is not called for it, so it never reaches the business logic.
C36_ErrorsCapturedAndReplayed ==
  /\ [](\A r \in DOMAIN reqs :
          reqs[r].phase = "replayed"
            => reqs[r].nextCalls = 0 /\ reqs[r].emitted = <<>>)
  /\ [][\A r \in DOMAIN reqs :
          (FirstEmission(r) /\ reqs'[r].emitted[1].status >= 400)
            => /\ MapHas(cache', reqs[r].key)
               /\ Replay(cache'[reqs[r].key]) = ResponseOf(r)']_vars
  /\ [][\A r \in DOMAIN reqs' :
          LET k == reqs'[r].key IN
          (Arrived(r) /\ LiveRecord(k) /\ cache[k].status >= 400)
            => /\ reqs'[r].phase = "replayed"
               /\ reqs'[r].replayed = <<Replay(cache[k])>>
               /\ reqs'[r].nextCalls = 0
               /\ cache' = cache]_vars

\* C36 witness: the first POST emitted a 404, and a later POST with the same
\* key was answered with that 404 without a call of next().
C36_Witness ==
  \E r1, r2 \in DOMAIN reqs :
    /\ r1 < r2 /\ SameKey(r1, r2)
    /\ reqs[r1].stored /\ ResponseOf(r1).status = 404
    /\ reqs[r2].phase = "replayed"
    /\ reqs[r2].replayed = <<ResponseOf(r1)>>
    /\ reqs[r2].nextCalls = 0

\* the Idempotency-Key header of a request of SpecReplay, trimmed
TrimmedKey(req) == Trim(req.headers["Idempotency-Key"])

\* C37: replay is decided by the trimmed key alone. Whichever instance i
\* (with whichever ttlMs) handles a POST, and whatever the rest of the
\* request is, the POST is answered with the record stored under its trimmed
\* key when that record has not expired, and is passed on otherwise: two
\* requests with the same trimmed key get the same treatment from either
\* instance.
C37_ReplayByKeyAlone ==
  [][\A i \in DOMAIN idem, req \in ReplayRequests :
       Arrive(i, req) =>
         LET r == Cardinality(DOMAIN reqs) + 1
             k == TrimmedKey(req)
         IN  IF LiveRecord(k)
             THEN /\ reqs'[r].phase = "replayed"
                  /\ reqs'[r].replayed = <<Replay(cache[k])>>
                  /\ reqs'[r].nextCalls = 0
             ELSE /\ reqs'[r].phase = "running"
                  /\ reqs'[r].replayed = <<>>
                  /\ reqs'[r].nextCalls = 1]_vars

\* C37 witness: the response of a POST to /orders with key "k", handled by
\* the instance with the default ttlMs, was replayed at a later time to a
\* POST to /refunds with key " k<tab>", handled by the instance with ttlMs 1.
C37_Witness ==
  \E r1, r2 \in DOMAIN reqs :
    /\ r1 < r2
    /\ reqs[r1].req.path = "/orders" /\ reqs[r2].req.path = "/refunds"
    /\ reqs[r1].req.headers # reqs[r2].req.headers
    /\ reqs[r1].ttlMs = DEFAULT_TTL_MS /\ reqs[r2].ttlMs = 1
    /\ reqs[r1].stored /\ reqs[r1].now < reqs[r2].now
    /\ reqs[r2].phase = "replayed"
    /\ reqs[r2].replayed = <<ResponseOf(r1)>>

----------------------------------------------------------------------------
(* Claims about requireIdempotencyKey, checked under SpecRequire *)

\* the Idempotency-Key header of request r is missing or empty
NoKeySent(r) ==
  \/ ~MapHas(reqs[r].req.headers, "Idempotency-Key")
  \/ reqs[r].req.headers["Idempotency-Key"] = <<>>

\* C38, as stated: requireIdempotencyKey answers next(AppError
\* VALIDATION_ERROR, 400) exactly when the header is missing or empty, and
\* every POST it lets through is governed by the idempotency middleware
\* behind it: replayed or captured, never passed through.
C38_GuardedPostsAreKeyed ==
  \A r \in DOMAIN reqs :
    /\ reqs[r].phase = "rejected" <=> NoKeySent(r)
    /\ reqs[r].phase = "rejected"
         => /\ reqs[r].guard.type = "AppError"
            /\ reqs[r].guard.code = "VALIDATION_ERROR"
            /\ reqs[r].guard.status = 400
    /\ reqs[r].phase # "rejected" => reqs[r].phase \in {"replayed", "running"}

\* C38: a POST whose header is blank was let through by
\* requireIdempotencyKey and passed on by the idempotency middleware without
\* a lookup or a capture.
C38_Witness ==
  \E r \in DOMAIN reqs :
    /\ reqs[r].req.method = "POST"
    /\ MapHas(reqs[r].req.headers, "Idempotency-Key")
    /\ reqs[r].req.headers["Idempotency-Key"] = <<" ">>
    /\ reqs[r].phase = "passed"
    /\ reqs[r].nextCalls = 1
====
